---- MODULE Spec2Model ----
(***************************************************************************)
(* Verification model of the OPLang compiler middle/back end:              *)
(*   - codegen/frame.py      : Frame (stack / label / slot bookkeeping)    *)
(*   - codegen/codegen.py    : CodeGenerator statement walk               *)
(*   - semantics/static_checker.py : StaticChecker                        *)
(* Objects are records whose fields carry the names used in the source.    *)
(* A Python call that may raise is an operator returning a result record   *)
(* [frame, exc, ret]: the object as the call leaves it, the exception that *)
(* escapes ("none" when the call returns) and the returned value (<<>> for *)
(* None, <<v>> for a value v).                                             *)
(***************************************************************************)
EXTENDS Integers, Sequences, FiniteSets, TLC

\* ------------------------------------------------------------------------
\* Bounds of the exploration (not program constants)
\* ------------------------------------------------------------------------
MaxLabel == 4
MaxStack == 1
MaxUnderflow == 1
MaxIndex == 2
MaxScopes == 2
MaxLoops == 1
MaxGenLabel == 12     \* labels one generated member may consume
MaxNest == 5          \* open statements of the generator's walk
MaxParams == 0        \* parameters of a generated member
MaxLocals == 1        \* slots one generated member may allocate to locals
MaxMembers == 2       \* members of all classes of a checked program
MaxBodyNest == 2      \* statements open inside a member body of a checked program
MaxCheckNest == 5     \* statements open inside the method body of SpecLoop
MaxSigParams == 2     \* parameters of an overloaded method
MaxSigMethods == 2    \* overloads of one method name in a class
MaxExprDepth == 1     \* nesting of the expressions of SpecBody
MaxDecls == 2         \* declarations at the head of one block
MaxScopeNest == 3     \* statements open inside the method body of SpecScope
MaxLeftLoops == 1     \* value of self.loop with which SpecReuse starts another run
MaxReuseNest == 3     \* statements open inside the method body of SpecReuse
MaxSlotParams == 2    \* parameters of a member of SpecSlots
MaxSlotLocals == 1    \* slots a member of SpecSlots may allocate to locals
MaxSlotNest == 3      \* open visits of the walk of SpecSlots

VARIABLES
    frame,        \* the Frame object (codegen/frame.py)
    exc,          \* exception raised by the last call, "none" if it returned
    ret,          \* value returned by the last call (<<>> = None)
    op,           \* name of the last call
    scopeEntry,   \* history: curr_index observed at each still-open enter_scope
    matchIndex,   \* history: index observed at the enter_scope matched by the last exit_scope
    hiIndex,      \* history: largest curr_index reached since the Frame was created
    memberUse     \* history: "fresh", "member" (enter_scope(True) came first and
                  \*          only slot allocation moved the index since), "other"

frameVars == <<frame, exc, ret, op, scopeEntry, matchIndex, hiIndex, memberUse>>

VARIABLES
    walk,         \* CodeGenerator: the open visit_* calls, outermost first, each
                  \* with its local variables (labels) and the SubBody.sym it passes down
    emitted       \* CodeGenerator: the branch instruction printed last

genVars == <<walk, emitted>>

VARIABLES
    checker,      \* the StaticChecker object (semantics/static_checker.py)
    cwalk,        \* StaticChecker: the open visit_* calls, outermost first, each
                  \* with the environment o it was given and its local variables
    cnode,        \* StaticChecker: the AST node handed to the last visit_* call
    outcome,      \* how check_program ended: passed, or the diagnostic raised
    visited,      \* history: number of member visits that returned in this run
    args,         \* arguments of the helper function under test
    result        \* what the helper function returned (<<>> before the call)

chkVars == <<checker, cwalk, cnode, outcome, visited>>
funVars == <<args, result>>
vars == <<frameVars, genVars, chkVars, funVars>>

\* ------------------------------------------------------------------------
\* Helpers
\* ------------------------------------------------------------------------
None == <<>>
Some(v) == <<v>>
Last(s) == s[Len(s)]
Front(s) == SubSeq(s, 1, Len(s) - 1)
Max(a, b) == IF a > b THEN a ELSE b

Ok(f, r) == [frame |-> f, exc |-> "none", ret |-> r]
Raise(f) == [frame |-> f, exc |-> "IllegalRuntimeException", ret |-> None]

\* ------------------------------------------------------------------------
\* Frame (codegen/frame.py)
\* ------------------------------------------------------------------------
NewFrame ==
    [current_label |-> 0, curr_op_stack_size |-> 0, max_op_stack_size |-> 0,
     curr_index |-> 0, max_index |-> 0,
     start_label |-> <<>>, end_label |-> <<>>, index_local |-> <<>>,
     con_label |-> <<>>, brk_label |-> <<>>]

get_curr_index(f) == Ok(f, Some(f.curr_index))

set_curr_index(f, index) == Ok([f EXCEPT !.curr_index = index], None)

get_new_label(f) ==
    Ok([f EXCEPT !.current_label = f.current_label + 1], Some(f.current_label))

push(f) ==
    LET g == [f EXCEPT !.curr_op_stack_size = f.curr_op_stack_size + 1]
    IN  IF g.max_op_stack_size < g.curr_op_stack_size
        THEN Ok([g EXCEPT !.max_op_stack_size = g.curr_op_stack_size], None)
        ELSE Ok(g, None)

\* variant: underflow is clamped at 0 and the call returns normally
pop_clamped(f) ==
    IF f.curr_op_stack_size = 0 THEN Ok(f, None)
    ELSE Ok([f EXCEPT !.curr_op_stack_size = f.curr_op_stack_size - 1], None)

pop(f) ==
    LET g == [f EXCEPT !.curr_op_stack_size = f.curr_op_stack_size - 1]
    IN  IF g.curr_op_stack_size < 0 THEN Raise(g) ELSE Ok(g, None)

get_stack_size(f) == Ok(f, Some(f.curr_op_stack_size))

get_max_op_stack_size(f) == Ok(f, Some(f.max_op_stack_size))

check_op_stack(f) == IF f.curr_op_stack_size # 0 THEN Raise(f) ELSE Ok(f, None)

enter_scope(f, is_proc) ==
    LET r1 == get_new_label(f)
        r2 == get_new_label(r1.frame)
        start == r1.ret[1]
        end == r2.ret[1]
        g == [r2.frame EXCEPT !.start_label = Append(@, start),
                              !.end_label = Append(@, end),
                              !.index_local = Append(@, r2.frame.curr_index)]
    IN  IF is_proc
        THEN Ok([g EXCEPT !.max_op_stack_size = 0, !.max_index = 0], None)
        ELSE Ok(g, None)

\* variant: the saved index is popped but not restored
exit_scope_keep_index(f) ==
    IF f.start_label = <<>> \/ f.end_label = <<>> \/ f.index_local = <<>>
    THEN Raise(f)
    ELSE Ok([f EXCEPT !.start_label = Front(@),
                      !.end_label = Front(@),
                      !.index_local = Front(@)], None)

\* variant: the two labels of the scope are handed back to the counter
exit_scope_release_labels(f) ==
    IF f.start_label = <<>> \/ f.end_label = <<>> \/ f.index_local = <<>>
    THEN Raise(f)
    ELSE Ok([f EXCEPT !.start_label = Front(@),
                      !.end_label = Front(@),
                      !.curr_index = Last(f.index_local),
                      !.index_local = Front(@),
                      !.current_label = f.current_label - 2], None)

exit_scope(f) ==
    IF f.start_label = <<>> \/ f.end_label = <<>> \/ f.index_local = <<>>
    THEN Raise(f)
    ELSE Ok([f EXCEPT !.start_label = Front(@),
                      !.end_label = Front(@),
                      !.curr_index = Last(f.index_local),
                      !.index_local = Front(@)], None)

get_start_label(f) ==
    IF f.start_label = <<>> THEN Raise(f) ELSE Ok(f, Some(Last(f.start_label)))

get_end_label(f) ==
    IF f.end_label = <<>> THEN Raise(f) ELSE Ok(f, Some(Last(f.end_label)))

\* variant: the high-water mark follows the index down as well as up
get_new_index_track_current(f) ==
    Ok([f EXCEPT !.curr_index = f.curr_index + 1, !.max_index = f.curr_index + 1],
       Some(f.curr_index))

\* variant: the index after the increment is returned
get_new_index_returns_next(f) ==
    LET g == [f EXCEPT !.curr_index = f.curr_index + 1]
    IN  IF g.curr_index > g.max_index
        THEN Ok([g EXCEPT !.max_index = g.curr_index], Some(g.curr_index))
        ELSE Ok(g, Some(g.curr_index))

get_new_index(f) ==
    LET g == [f EXCEPT !.curr_index = f.curr_index + 1]
    IN  IF g.curr_index > g.max_index
        THEN Ok([g EXCEPT !.max_index = g.curr_index], Some(f.curr_index))
        ELSE Ok(g, Some(f.curr_index))

get_max_index(f) == Ok(f, Some(f.max_index))

enter_loop(f) ==
    LET r1 == get_new_label(f)
        r2 == get_new_label(r1.frame)
        con == r1.ret[1]
        brk == r2.ret[1]
    IN  Ok([r2.frame EXCEPT !.con_label = Append(@, con),
                            !.brk_label = Append(@, brk)], None)

\* variant: the stacks are popped without the emptiness test, so an empty
\* stack fails inside list.pop()
exit_loop_unchecked(f) ==
    IF f.con_label = <<>> \/ f.brk_label = <<>>
    THEN [frame |-> f, exc |-> "IndexError", ret |-> None]
    ELSE Ok([f EXCEPT !.con_label = Front(@), !.brk_label = Front(@)], None)

exit_loop(f) ==
    IF f.con_label = <<>> \/ f.brk_label = <<>>
    THEN Raise(f)
    ELSE Ok([f EXCEPT !.con_label = Front(@), !.brk_label = Front(@)], None)

get_continue_label(f) ==
    IF f.con_label = <<>> THEN Raise(f) ELSE Ok(f, Some(Last(f.con_label)))

get_break_label(f) ==
    IF f.brk_label = <<>> THEN Raise(f) ELSE Ok(f, Some(Last(f.brk_label)))

\* ------------------------------------------------------------------------
\* Emitter (codegen/emitter.py): only its effect on the Frame's simulated
\* operand stack, which it reports through push()/pop()
\* ------------------------------------------------------------------------
emit_push_iconst(f) == push(f)
emit_read_var(f) == push(f)
emit_write_var(f) == pop(f)
emit_if_false(f) == pop(f)
emit_goto(f) == Ok(f, None)
emit_label(f) == Ok(f, None)

NoBranch == [ins |-> "none", label |-> 0]
Branch(ins, label) == [ins |-> ins, label |-> label]
Goto(label) == Branch("goto", label)

\* ------------------------------------------------------------------------
\* Types and symbols (utils/nodes.py as used by semantics/static_checker.py)
\* ------------------------------------------------------------------------
PrimitiveType(type_name) == [kind |-> "PrimitiveType", type_name |-> type_name]
ClassType(class_name) == [kind |-> "ClassType", class_name |-> class_name]
ArrayType(element_type, size) ==
    [kind |-> "ArrayType", element_type |-> element_type, size |-> size]
ReferenceType(referenced_type) ==
    [kind |-> "ReferenceType", referenced_type |-> referenced_type]
FunctionType(param_types, return_type) ==
    [kind |-> "FunctionType", param_types |-> param_types, return_type |-> return_type]

Symbol(name, typ, isFinal, isStatic) ==
    [name |-> name, typ |-> typ, isfinal |-> isFinal, isStatic |-> isStatic]

\* ClassDecl node; superclass is None or Some(name)
ClassDecl(name, superclass, members) ==
    [name |-> name, superclass |-> superclass, members |-> members]

\* StaticChecker.__init__
NewChecker ==
    [list_class |-> <<>>, loop |-> 0, current_return_type |-> None,
     in_static_method |-> FALSE, current_class |-> None]

\* next((cls for cls in self.list_class if cls.name == name), None)
RECURSIVE FindClass(_, _, _)
FindClass(list_class, name, k) ==
    IF k > Len(list_class) THEN None
    ELSE IF list_class[k].name = name THEN Some(list_class[k])
    ELSE FindClass(list_class, name, k + 1)

\* variant: only the class itself and its direct superclass are tried
SuperclassWalk_direct(list_class, current_class_name, target) ==
    \/ current_class_name[1] = target
    \/ \E k \in 1..Len(list_class) :
          /\ list_class[k].name = current_class_name[1]
          /\ list_class[k].superclass = Some(target)

\* the while loop of the ClassType case: walk the superclass chain of
\* current_class_name until it meets target or the chain ends
RECURSIVE SuperclassWalk(_, _, _)
SuperclassWalk(list_class, current_class_name, target) ==
    IF current_class_name = None THEN FALSE
    ELSE IF current_class_name[1] = target THEN TRUE
    ELSE LET parent_decl == FindClass(list_class, current_class_name[1], 1)
         IN  SuperclassWalk(list_class,
                            IF parent_decl # None THEN parent_decl[1].superclass ELSE None,
                            target)

\* variant: widening is accepted in both directions
are_types_compatible_symmetric(list_class, lhs_type, rhs_type) ==
    LET comp_lhs_type == IF lhs_type.kind = "ReferenceType"
                         THEN lhs_type.referenced_type ELSE lhs_type
        comp_rhs_type == IF rhs_type.kind = "ReferenceType"
                         THEN rhs_type.referenced_type ELSE rhs_type
    IN  /\ comp_lhs_type.kind = "PrimitiveType"
        /\ comp_rhs_type.kind = "PrimitiveType"
        /\ \/ comp_lhs_type.type_name = comp_rhs_type.type_name
           \/ {comp_lhs_type.type_name, comp_rhs_type.type_name} = {"int", "float"}

are_types_compatible(list_class, lhs_type, rhs_type) ==
    LET comp_lhs_type == IF lhs_type.kind = "ReferenceType"
                         THEN lhs_type.referenced_type ELSE lhs_type
        comp_rhs_type == IF rhs_type.kind = "ReferenceType"
                         THEN rhs_type.referenced_type ELSE rhs_type
    IN  IF /\ comp_lhs_type.kind = "PrimitiveType"
           /\ comp_lhs_type.type_name = "float"
           /\ comp_rhs_type.kind = "PrimitiveType"
           /\ comp_rhs_type.type_name = "int"
        THEN TRUE
        ELSE IF comp_lhs_type.kind # comp_rhs_type.kind THEN FALSE
        ELSE IF comp_lhs_type.kind = "PrimitiveType"
        THEN comp_lhs_type.type_name = comp_rhs_type.type_name
        ELSE IF comp_lhs_type.kind = "ArrayType"
        THEN IF comp_lhs_type.size # comp_rhs_type.size THEN FALSE
             ELSE IF /\ comp_rhs_type.element_type.kind = "PrimitiveType"
                     /\ comp_rhs_type.element_type.type_name = "unknown"
             THEN TRUE
             ELSE LET elem_lhs == comp_lhs_type.element_type
                      elem_rhs == comp_rhs_type.element_type
                  IN  IF elem_lhs.kind # elem_rhs.kind THEN FALSE
                      ELSE IF elem_lhs.kind = "PrimitiveType"
                      THEN elem_lhs.type_name = elem_rhs.type_name
                      ELSE IF elem_lhs.kind = "ClassType"
                      THEN elem_lhs.class_name = elem_rhs.class_name
                      ELSE FALSE
        ELSE IF comp_lhs_type.kind = "ClassType"
        THEN SuperclassWalk(list_class, Some(comp_rhs_type.class_name),
                            comp_lhs_type.class_name)
        ELSE FALSE

\* ------------------------------------------------------------------------
\* SpecCompat: _are_types_compatible applied to a pair of types under a
\* class table the checker can have built
\* ------------------------------------------------------------------------
MaxArraySize == 1

PrimitiveNames == {"int", "float", "boolean", "string", "void", "nil", "unknown"}
ClassNames == {"A", "B", "C"}
PrimitiveTypes == {PrimitiveType(n) : n \in PrimitiveNames}
ClassTypes == {ClassType(n) : n \in ClassNames}
\* element types: those a declaration can name, the "unknown" of an empty
\* array literal and the array type of a literal whose elements are literals
ElementTypes ==
    {PrimitiveType(n) : n \in {"int", "float", "unknown"}} \cup {ClassType("A"), ClassType("B")}
    \cup {ArrayType(PrimitiveType("int"), 1)}
ArrayTypes == {ArrayType(e, n) : e \in ElementTypes, n \in 0..MaxArraySize}
ValueTypes == PrimitiveTypes \cup ClassTypes \cup ArrayTypes
AllTypes == ValueTypes \cup {ReferenceType(t) : t \in ValueTypes}

\* class tables: no inheritance, a chain C < B < A, and B < A with C apart
ClassTables ==
    { <<ClassDecl("A", None, <<>>), ClassDecl("B", None, <<>>), ClassDecl("C", None, <<>>)>>,
      <<ClassDecl("A", None, <<>>), ClassDecl("B", Some("A"), <<>>), ClassDecl("C", Some("B"), <<>>)>>,
      <<ClassDecl("A", None, <<>>), ClassDecl("B", Some("A"), <<>>), ClassDecl("C", None, <<>>)>> }

InitChecker ==
    /\ checker = NewChecker
    /\ cwalk = <<>>
    /\ cnode = None
    /\ visited = 0
    /\ outcome = [status |-> "idle", err |-> "none", kind |-> "", name |-> ""]

InitNoCall ==
    /\ args = None
    /\ result = None

IdleFrame ==
    /\ frame = NewFrame /\ exc = "none" /\ ret = None /\ op = "__init__"
    /\ scopeEntry = <<>> /\ matchIndex = 0 /\ hiIndex = 0 /\ memberUse = "fresh"
    /\ walk = <<>> /\ emitted = NoBranch

InitCompat ==
    /\ IdleFrame
    /\ cwalk = <<>> /\ cnode = None /\ visited = 0
    /\ outcome = [status |-> "idle", err |-> "none", kind |-> "", name |-> ""]
    /\ \E t \in ClassTables : checker = [NewChecker EXCEPT !.list_class = t]
    /\ \E l \in AllTypes, r \in AllTypes : args = <<l, r>>
    /\ result = None

AreTypesCompatible ==
    /\ result = None
    /\ result' = Some(are_types_compatible(checker.list_class, args[1], args[2]))
    /\ op' = "_are_types_compatible"
    /\ UNCHANGED <<frame, exc, ret, scopeEntry, matchIndex, hiIndex, memberUse>>
    /\ UNCHANGED <<genVars, chkVars, args>>

NextCompat == AreTypesCompatible

SpecCompat == InitCompat /\ [][NextCompat]_vars

\* ------------------------------------------------------------------------
\* StaticChecker (semantics/static_checker.py): the walk of one program.
\* A class node comes with the headers of its members; the bodies of the
\* members are supplied statement by statement.  Each action is the part of
\* a visit_* method that runs before or after the visits of its children.
\* ------------------------------------------------------------------------
Parameter(name, param_type) == [name |-> name, param_type |-> param_type]
MethodDecl(is_static, return_type, name, params) ==
    [kind |-> "MethodDecl", is_static |-> is_static, return_type |-> return_type,
     name |-> name, params |-> params]
AttributeDecl(is_static, is_final, attr_type, name) ==
    [kind |-> "AttributeDecl", is_static |-> is_static, is_final |-> is_final,
     attr_type |-> attr_type, name |-> name]
ConstructorDecl(name, params) ==
    [kind |-> "ConstructorDecl", name |-> name, params |-> params]
DestructorDecl(name) == [kind |-> "DestructorDecl", name |-> name]

Running == [status |-> "running", err |-> "none", kind |-> "", name |-> ""]
Passed == [status |-> "passed", err |-> "none", kind |-> "", name |-> ""]
Diagnostic(err, kind, name) ==
    [status |-> "raised", err |-> err, kind |-> kind, name |-> name]
NoError == Diagnostic("none", "", "")

\* next(filter(lambda sym: sym.name == name, scope), None)
RECURSIVE FindSym(_, _, _)
FindSym(scope, name, k) ==
    IF k > Len(scope) THEN None
    ELSE IF scope[k].name = name THEN Some(scope[k])
    ELSE FindSym(scope, name, k + 1)

\* reduce(lambda found_so_far, scope: found_so_far or next(...), o, None)
RECURSIVE FindInScopes(_, _, _)
FindInScopes(o, name, k) ==
    IF k > Len(o) THEN None
    ELSE IF FindSym(o[k], name, 1) # None THEN FindSym(o[k], name, 1)
    ELSE FindInScopes(o, name, k + 1)

\* an open visit_* call
Visit(kind, phase, o, node, old) ==
    [kind |-> kind, phase |-> phase, o |-> o, node |-> node, old |-> old]

CTop == cwalk[Len(cwalk)]

\* the finally clause of visit_method_decl runs when an exception leaves the body
Unwound(chk, w) ==
    IF \E k \in 1..Len(w) : w[k].kind = "method"
    THEN LET k == CHOOSE k \in 1..Len(w) : w[k].kind = "method"
         IN  [chk EXCEPT !.current_return_type = None,
                         !.in_static_method = w[k].old]
    ELSE chk

\* the steps in which the visit of a class member returns
MemberReturns ==
    {"visit_attribute_decl", "visit_method_decl_end",
     "visit_constructor_decl_end", "visit_destructor_decl_end"}

\* the step `name` on `node` ended: it raised d (d.err # "none"), or it
\* returned and left the checker chk and the open calls w
CheckStep(name, node, d, chk, w) ==
    /\ op' = name
    /\ cnode' = node
    /\ IF d.err # "none"
       THEN /\ outcome' = d
            /\ checker' = Unwound(checker, cwalk)
            /\ cwalk' = <<>>
       ELSE /\ outcome' = outcome
            /\ checker' = chk
            /\ cwalk' = w
    /\ visited' = IF d.err = "none" /\ name \in MemberReturns THEN visited + 1 ELSE visited
    /\ UNCHANGED <<frame, exc, ret, scopeEntry, matchIndex, hiIndex, memberUse>>
    /\ UNCHANGED <<genVars, funVars>>

\* visit_program: reset the class table, seed the global scope with io
VisitProgram ==
    /\ outcome.status = "idle"
    /\ op' = "visit_program"
    /\ cnode' = None
    /\ outcome' = Running
    /\ visited' = 0
    /\ checker' = [checker EXCEPT !.list_class = <<>>]
    /\ cwalk' = <<Visit("program", "classes",
                        << <<Symbol("io", ClassType("io"), FALSE, FALSE)>> >>, None, FALSE)>>
    /\ UNCHANGED <<frame, exc, ret, scopeEntry, matchIndex, hiIndex, memberUse>>
    /\ UNCHANGED <<genVars, funVars>>

\* variant: the class is in scope while its own superclass is resolved
visit_class_decl_check_self(node, o) ==
    IF FindSym(o[1], node.name, 1) # None
    THEN Diagnostic("Redeclared", "Class", node.name)
    ELSE IF /\ node.superclass # None
            /\ node.superclass[1] # node.name
            /\ FindSym(o[1], node.superclass[1], 1) = None
    THEN Diagnostic("UndeclaredClass", "", node.superclass[1])
    ELSE NoError

\* variant: the name of the class is not looked up in the global scope
visit_class_decl_check_any_name(node, o) ==
    IF node.superclass # None /\ FindSym(o[1], node.superclass[1], 1) = None
    THEN Diagnostic("UndeclaredClass", "", node.superclass[1])
    ELSE NoError

\* visit_class_decl up to the visit of the members
visit_class_decl_check(node, o) ==
    IF FindSym(o[1], node.name, 1) # None
    THEN Diagnostic("Redeclared", "Class", node.name)
    ELSE IF node.superclass # None /\ FindSym(o[1], node.superclass[1], 1) = None
    THEN Diagnostic("UndeclaredClass", "", node.superclass[1])
    ELSE NoError

VisitClassDecl(Nodes) ==
    /\ outcome.status = "running"
    /\ CTop.kind = "program"
    /\ \E node \in Nodes :
           CheckStep("visit_class_decl", Some(node),
                     visit_class_decl_check(node, CTop.o),
                     [checker EXCEPT !.list_class = Append(@, node),
                                     !.current_class = Some(node)],
                     Append(cwalk, Visit("class", 0, <<<<>>>> \o CTop.o, node, FALSE)))

\* visit_class_decl after the members: the class name joins the global scope
VisitClassDeclEnd ==
    /\ outcome.status = "running"
    /\ CTop.kind = "class" /\ CTop.phase = Len(CTop.node.members)
    /\ LET prog == cwalk[Len(cwalk) - 1]
           global == <<Symbol(CTop.node.name, ClassType(CTop.node.name), FALSE, FALSE)>>
                     \o prog.o[1]
       IN  CheckStep("visit_class_decl_end", Some(CTop.node), NoError,
                     [checker EXCEPT !.current_class = None],
                     <<[prog EXCEPT !.o = <<global>> \o Tail(prog.o)]>>)

\* the member a class visit hands to self.visit next
NextMember == CTop.node.members[CTop.phase + 1]

AtMember(kind) ==
    /\ outcome.status = "running"
    /\ CTop.kind = "class" /\ CTop.phase < Len(CTop.node.members)
    /\ NextMember.kind = kind

\* the member visit returned scope: acc becomes [scope] + acc[1:]
MemberDone(w, scope) ==
    LET cls == w[Len(w)]
    IN  [w EXCEPT ![Len(w)] = [cls EXCEPT !.o = <<scope>> \o Tail(cls.o),
                                          !.phase = cls.phase + 1]]

\* visit_attribute_decl (attributes without initializer)
visit_attribute_decl_check(node, o) ==
    IF FindSym(o[1], node.name, 1) # None
    THEN Diagnostic("Redeclared", IF node.is_final THEN "Constant" ELSE "Attribute",
                    node.name)
    ELSE NoError

VisitAttributeDecl ==
    /\ AtMember("AttributeDecl")
    /\ LET node == NextMember
       IN  CheckStep("visit_attribute_decl", Some(node),
                     visit_attribute_decl_check(node, CTop.o), checker,
                     MemberDone(cwalk,
                         <<Symbol(node.name, node.attr_type, node.is_final, node.is_static)>>
                         \o CTop.o[1]))

\* visit_method_decl: do two parameter types differ ("AttributeError" when the
\* comparison reads an attribute the element type does not have)
type_differs(t1, t2) ==
    IF t1.kind # t2.kind THEN "differs"
    ELSE IF t1.kind = "PrimitiveType" /\ t1.type_name # t2.type_name THEN "differs"
    ELSE IF t1.kind = "ClassType" /\ t1.class_name # t2.class_name THEN "differs"
    ELSE IF t1.kind = "ArrayType"
    THEN IF t1.size # t2.size THEN "differs"
         ELSE IF t1.element_type.kind = "PrimitiveType"
         THEN IF t2.element_type.kind # "PrimitiveType" THEN "AttributeError"
              ELSE IF t1.element_type.type_name # t2.element_type.type_name
              THEN "differs" ELSE "same"
         ELSE IF t1.element_type.kind = "ClassType"
         THEN IF t2.element_type.kind # "ClassType" THEN "AttributeError"
              ELSE IF t1.element_type.class_name # t2.element_type.class_name
              THEN "differs" ELSE "same"
         ELSE "same"
    ELSE "same"

\* the zip loop over two parameter-type lists of equal length
RECURSIVE is_duplicate_signature(_, _, _)
is_duplicate_signature(existing_param_types, new_param_types, k) ==
    IF k > Len(existing_param_types) \/ k > Len(new_param_types) THEN "duplicate"
    ELSE LET d == type_differs(existing_param_types[k], new_param_types[k])
         IN  IF d = "differs" THEN "distinct"
             ELSE IF d = "AttributeError" THEN "AttributeError"
             ELSE is_duplicate_signature(existing_param_types, new_param_types, k + 1)

\* the loop over the symbols of the class scope that bear the method's name
RECURSIVE check_overloads(_, _, _, _)
check_overloads(current_scope, name, new_param_types, k) ==
    IF k > Len(current_scope) THEN NoError
    ELSE LET entry == current_scope[k]
         IN  IF entry.name # name
             THEN check_overloads(current_scope, name, new_param_types, k + 1)
             ELSE IF entry.typ.kind # "FunctionType"
             THEN Diagnostic("Redeclared", "Method", name)
             ELSE IF Len(entry.typ.param_types) # Len(new_param_types)
             THEN check_overloads(current_scope, name, new_param_types, k + 1)
             ELSE LET dup == is_duplicate_signature(entry.typ.param_types,
                                                    new_param_types, 1)
                  IN  IF dup = "duplicate"
                      THEN Diagnostic("Redeclared", "Method", name)
                      ELSE IF dup = "AttributeError"
                      THEN Diagnostic("AttributeError", "", name)
                      ELSE check_overloads(current_scope, name, new_param_types, k + 1)

ParamTypes(params) == [k \in 1..Len(params) |-> params[k].param_type]

\* the parameter loop of visit_method_decl: param_scope += [sym] + param_scope
RECURSIVE method_param_scope(_, _)
method_param_scope(params, param_scope) ==
    IF params = <<>> THEN [err |-> NoError, scope |-> param_scope]
    ELSE IF FindSym(param_scope, Head(params).name, 1) # None
    THEN [err |-> Diagnostic("Redeclared", "Parameter", Head(params).name),
          scope |-> param_scope]
    ELSE method_param_scope(Tail(params),
             param_scope \o <<Symbol(Head(params).name, Head(params).param_type,
                                     FALSE, FALSE)>> \o param_scope)

\* the parameter loop of visit_constructor_decl: param_scope += [sym]
RECURSIVE constructor_param_scope(_, _)
constructor_param_scope(params, param_scope) ==
    IF params = <<>> THEN [err |-> NoError, scope |-> param_scope]
    ELSE IF FindSym(param_scope, Head(params).name, 1) # None
    THEN [err |-> Diagnostic("Redeclared", "Parameter", Head(params).name),
          scope |-> param_scope]
    ELSE constructor_param_scope(Tail(params),
             param_scope \o <<Symbol(Head(params).name, Head(params).param_type,
                                     FALSE, FALSE)>>)

\* visit_method_decl up to the visit of the body (a body without declarations)
visit_method_decl_check(node, o) ==
    LET d == check_overloads(o[1], node.name, ParamTypes(node.params), 1)
    IN  IF d.err # "none" THEN d ELSE method_param_scope(node.params, <<>>).err

VisitMethodDecl ==
    /\ AtMember("MethodDecl")
    /\ LET node == NextMember
       IN  CheckStep("visit_method_decl", Some(node),
                     visit_method_decl_check(node, CTop.o),
                     [checker EXCEPT !.in_static_method = node.is_static,
                                     !.current_return_type = Some(node.return_type)],
                     Append(cwalk,
                            Visit("method", "body_pending",
                                  <<method_param_scope(node.params, <<>>).scope>>
                                  \o Tail(CTop.o),
                                  node, checker.in_static_method)))

\* visit_method_decl after the body: finally clause, the method joins the class scope
VisitMethodDeclEnd ==
    /\ outcome.status = "running"
    /\ CTop.kind = "method" /\ CTop.phase = "body_done"
    /\ LET node == CTop.node
           method_type == FunctionType(ParamTypes(node.params), node.return_type)
           w == Front(cwalk)
       IN  CheckStep("visit_method_decl_end", Some(node), NoError,
                     [checker EXCEPT !.current_return_type = None,
                                     !.in_static_method = CTop.old],
                     MemberDone(w, <<Symbol(node.name, method_type, FALSE, node.is_static)>>
                                   \o w[Len(w)].o[1]))

VisitConstructorDecl ==
    /\ AtMember("ConstructorDecl")
    /\ LET node == NextMember
           ps == constructor_param_scope(node.params, <<>>)
       IN  CheckStep("visit_constructor_decl", Some(node), ps.err, checker,
                     Append(cwalk, Visit("constructor", "body_pending",
                                         <<ps.scope>> \o CTop.o, node, FALSE)))

VisitConstructorDeclEnd ==
    /\ outcome.status = "running"
    /\ CTop.kind = "constructor" /\ CTop.phase = "body_done"
    /\ LET w == Front(cwalk)
       IN  CheckStep("visit_constructor_decl_end", Some(CTop.node), NoError, checker,
                     MemberDone(w, w[Len(w)].o[1]))

VisitDestructorDecl ==
    /\ AtMember("DestructorDecl")
    /\ CheckStep("visit_destructor_decl", Some(NextMember), NoError, checker,
                 Append(cwalk, Visit("destructor", "body_pending", CTop.o,
                                     NextMember, FALSE)))

VisitDestructorDeclEnd ==
    /\ outcome.status = "running"
    /\ CTop.kind = "destructor" /\ CTop.phase = "body_done"
    /\ LET w == Front(cwalk)
       IN  CheckStep("visit_destructor_decl_end", Some(CTop.node), NoError, checker,
                     MemberDone(w, w[Len(w)].o[1]))

\* a statement may start here: in a block, as the body of a for / if, or
\* (a block only) as the body of a member
CStmtSlot ==
    /\ outcome.status = "running"
    /\ \/ CTop.kind = "block"
       \/ CTop.kind = "for" /\ CTop.phase = "body_pending"
       \/ CTop.kind = "if" /\ CTop.phase \in {"then_pending", "else_pending"}

CBodySlot ==
    /\ outcome.status = "running"
    /\ CTop.kind \in {"method", "constructor", "destructor"}
    /\ CTop.phase = "body_pending"

\* a child statement returned to the visit_* call that is now innermost
CChildDone(w) ==
    LET a == w[Len(w)]
        ph == CASE a.kind \in {"method", "constructor", "destructor"} -> "body_done"
                [] a.kind = "block" -> "stmts"
                [] a.kind = "for" -> "body_done"
                [] a.kind = "if" /\ a.phase = "then_pending" -> "then_done"
                [] a.kind = "if" -> "else_done"
    IN  [w EXCEPT ![Len(w)].phase = ph]

\* visit_block_statement (a block without declarations): new_env = [[]] + o
CVisitBlockEnter(nest) ==
    /\ CStmtSlot \/ CBodySlot
    /\ Len(cwalk) < 3 + nest
    /\ CheckStep("visit_block_statement", None, NoError, checker,
                 Append(cwalk, Visit("block", "stmts", <<<<>>>> \o CTop.o, None, FALSE)))

\* variant: the block declares into the first scope of the environment it
\* was given, not into a scope of its own
CVisitBlockExit_shared_scope ==
    /\ outcome.status = "running"
    /\ CTop.kind = "block"
    /\ LET w == CChildDone(Front(cwalk))
           outer == w[Len(w)].o
       IN  CheckStep("visit_block_statement_end", None, NoError, checker,
                     [w EXCEPT ![Len(w)].o = <<CTop.o[1] \o outer[1]>> \o Tail(outer)])

CVisitBlockExit ==
    /\ outcome.status = "running"
    /\ CTop.kind = "block"
    /\ CheckStep("visit_block_statement_end", None, NoError, checker,
                 CChildDone(Front(cwalk)))

\* visit_if_statement; the condition is a literal of type cond_type
IfStatement(cond_type, has_else) == [cond_type |-> cond_type, has_else |-> has_else]

visit_if_statement_check(node) ==
    IF node.cond_type.kind # "PrimitiveType" \/ node.cond_type.type_name # "boolean"
    THEN Diagnostic("TypeMismatchInStatement", "", "if")
    ELSE NoError

CVisitIfEnter(nest) ==
    \E cond_type \in {PrimitiveType("boolean"), PrimitiveType("int")},
       has_else \in BOOLEAN :
        /\ CStmtSlot
        /\ Len(cwalk) < 3 + nest
        /\ LET node == IfStatement(cond_type, has_else)
           IN  CheckStep("visit_if_statement", Some(node),
                         visit_if_statement_check(node), checker,
                         Append(cwalk, Visit("if", "then_pending", CTop.o, node, FALSE)))

CVisitIfElse ==
    /\ outcome.status = "running"
    /\ CTop.kind = "if" /\ CTop.phase = "then_done"
    /\ CheckStep("visit_if_statement_else", Some(CTop.node), NoError, checker,
                 IF CTop.node.has_else
                 THEN [cwalk EXCEPT ![Len(cwalk)].phase = "else_pending"]
                 ELSE CChildDone(Front(cwalk)))

CVisitIfExit ==
    /\ outcome.status = "running"
    /\ CTop.kind = "if" /\ CTop.phase = "else_done"
    /\ CheckStep("visit_if_statement_end", Some(CTop.node), NoError, checker,
                 CChildDone(Front(cwalk)))

\* visit_for_statement up to the visit of the body; the bounds are literals
ForStatement(variable, start_type, end_type) ==
    [variable |-> variable, start_type |-> start_type, end_type |-> end_type]

IsInt(t) == t.kind = "PrimitiveType" /\ t.type_name = "int"

visit_for_statement_check(chk, node, o) ==
    LET var_found == FindInScopes(o, node.variable, 1)
    IN  IF ~IsInt(node.start_type) \/ ~IsInt(node.end_type)
        THEN Diagnostic("TypeMismatchInStatement", "", "for")
        ELSE IF var_found # None /\ ~IsInt(var_found[1].typ)
        THEN Diagnostic("TypeMismatchInStatement", "", "for")
        ELSE IF /\ chk.current_class # None
                /\ \E k \in 1..Len(chk.current_class[1].members) :
                      LET member == chk.current_class[1].members[k]
                      IN  /\ member.kind = "AttributeDecl"
                          /\ member.name = node.variable
                          /\ member.is_final
        THEN Diagnostic("CannotAssignToConstant", "", "for")
        ELSE NoError

CVisitForEnter(nest) ==
    \E variable \in {"i"},
       start_type \in {PrimitiveType("int")},
       end_type \in {PrimitiveType("int"), PrimitiveType("float")} :
        /\ CStmtSlot
        /\ Len(cwalk) < 3 + nest
        /\ LET node == ForStatement(variable, start_type, end_type)
           IN  CheckStep("visit_for_statement", Some(node),
                         visit_for_statement_check(checker, node, CTop.o),
                         [checker EXCEPT !.loop = checker.loop + 1],
                         Append(cwalk, Visit("for", "body_pending", CTop.o, node, FALSE)))

\* variant: the counter is not decremented when the body has been visited
visit_for_statement_end_keep(chk) == chk

\* visit_for_statement after the body
visit_for_statement_end(chk) == [chk EXCEPT !.loop = chk.loop - 1]

CVisitForExit ==
    /\ outcome.status = "running"
    /\ CTop.kind = "for" /\ CTop.phase = "body_done"
    /\ CheckStep("visit_for_statement_end", Some(CTop.node), NoError,
                 visit_for_statement_end(checker), CChildDone(Front(cwalk)))

\* visit_break_statement / visit_continue_statement
visit_break_statement_check(chk) ==
    IF chk.loop = 0 THEN Diagnostic("MustInLoop", "", "break") ELSE NoError

visit_continue_statement_check(chk) ==
    IF chk.loop = 0 THEN Diagnostic("MustInLoop", "", "continue") ELSE NoError

CVisitBreak ==
    /\ CStmtSlot
    /\ CheckStep("visit_break_statement", None, visit_break_statement_check(checker),
                 checker, CChildDone(cwalk))

CVisitContinue ==
    /\ CStmtSlot
    /\ CheckStep("visit_continue_statement", None,
                 visit_continue_statement_check(checker), checker, CChildDone(cwalk))

\* variant: only a method called main counts as the entry point
main_found_by_name(list_class) ==
    \E i \in 1..Len(list_class) :
        \E j \in 1..Len(list_class[i].members) :
            LET member == list_class[i].members[j]
            IN  /\ member.kind = "MethodDecl"
                /\ member.is_static
                /\ Len(member.params) = 0
                /\ member.return_type = PrimitiveType("void")
                /\ member.name = "main"

\* the search of visit_program for an entry point
main_found(list_class) ==
    \E i \in 1..Len(list_class) :
        \E j \in 1..Len(list_class[i].members) :
            LET member == list_class[i].members[j]
            IN  /\ member.kind = "MethodDecl"
                /\ member.is_static
                /\ Len(member.params) = 0
                /\ member.return_type.kind = "PrimitiveType"
                /\ member.return_type.type_name = "void"

\* visit_program after the classes
VisitProgramEnd ==
    /\ outcome.status = "running"
    /\ CTop.kind = "program"
    /\ op' = "visit_program_end"
    /\ cnode' = None
    /\ outcome' = IF main_found(checker.list_class) THEN Passed
                  ELSE Diagnostic("NoEntryPoint", "", "")
    /\ cwalk' = <<>>
    /\ UNCHANGED <<checker, visited>>
    /\ UNCHANGED <<frame, exc, ret, scopeEntry, matchIndex, hiIndex, memberUse>>
    /\ UNCHANGED <<genVars, funVars>>

\* ------------------------------------------------------------------------
\* SpecCheck: check_program on a new StaticChecker, over programs of a few
\* classes and members
\* ------------------------------------------------------------------------
void == PrimitiveType("void")
int == PrimitiveType("int")

ProgMembers ==
    { MethodDecl(TRUE, void, "main", <<>>),
      MethodDecl(TRUE, void, "foo", <<>>),
      MethodDecl(FALSE, void, "main", <<>>),
      MethodDecl(TRUE, int, "main", <<>>),
      MethodDecl(TRUE, void, "main", <<Parameter("i", int)>>),
      AttributeDecl(FALSE, TRUE, int, "i"),
      AttributeDecl(FALSE, FALSE, int, "i"),
      ConstructorDecl("A", <<>>),
      DestructorDecl("A") }

RECURSIVE CountMembers(_)
CountMembers(list_class) ==
    IF list_class = <<>> THEN 0
    ELSE Len(Head(list_class).members) + CountMembers(Tail(list_class))

\* the class nodes a program may continue with
ProgClasses ==
    { ClassDecl(name, superclass, members) :
        name \in {"A", "B", "io"},
        superclass \in {None, Some("A"), Some("B"), Some("io")},
        members \in UNION { [1..n -> ProgMembers] :
                            n \in 0..(MaxMembers - CountMembers(checker.list_class)) } }

InitCheck ==
    /\ IdleFrame
    /\ InitChecker
    /\ InitNoCall

NextCheck ==
    \/ VisitProgram \/ VisitProgramEnd
    \/ VisitClassDecl(ProgClasses) \/ VisitClassDeclEnd
    \/ VisitAttributeDecl
    \/ VisitMethodDecl \/ VisitMethodDeclEnd
    \/ VisitConstructorDecl \/ VisitConstructorDeclEnd
    \/ VisitDestructorDecl \/ VisitDestructorDeclEnd
    \/ CVisitBlockEnter(MaxBodyNest) \/ CVisitBlockExit
    \/ CVisitForEnter(MaxBodyNest) \/ CVisitForExit
    \/ CVisitBreak \/ CVisitContinue

SpecCheck == InitCheck /\ [][NextCheck]_vars

\* ------------------------------------------------------------------------
\* SpecLoop: check_program on a new StaticChecker, over one class with one
\* method (and possibly an attribute i before it) whose body nests blocks,
\* ifs and for statements
\* ------------------------------------------------------------------------
LoopClasses ==
    IF checker.list_class # <<>> THEN {}
    ELSE { ClassDecl("A", None, attrs \o <<MethodDecl(TRUE, void, "main", <<>>)>>) :
             attrs \in { <<>>,
                         <<AttributeDecl(FALSE, TRUE, int, "i")>>,
                         <<AttributeDecl(FALSE, FALSE, int, "i")>> } }

NextLoop ==
    \/ VisitProgram \/ VisitProgramEnd
    \/ VisitClassDecl(LoopClasses) \/ VisitClassDeclEnd
    \/ VisitAttributeDecl
    \/ VisitMethodDecl \/ VisitMethodDeclEnd
    \/ CVisitBlockEnter(MaxCheckNest) \/ CVisitBlockExit
    \/ CVisitIfEnter(MaxCheckNest) \/ CVisitIfElse \/ CVisitIfExit
    \/ CVisitForEnter(MaxCheckNest) \/ CVisitForExit
    \/ CVisitBreak \/ CVisitContinue

SpecLoop == InitCheck /\ [][NextLoop]_vars

\* ------------------------------------------------------------------------
\* SpecOverload: check_program on a new StaticChecker, over one class whose
\* members are methods of one name with parameters of every kind of type
\* ------------------------------------------------------------------------
float == PrimitiveType("float")

SigTypes ==
    { int, float, ClassType("A"), ClassType("B"),
      ArrayType(int, 1), ArrayType(int, 2), ArrayType(ClassType("A"), 1),
      ReferenceType(int), ReferenceType(float) }

ParamName(k) == IF k = 1 THEN "a" ELSE IF k = 2 THEN "b" ELSE "c"

SigParams ==
    { [k \in 1..n |-> Parameter(ParamName(k), ts[k])] :
        n \in 0..MaxSigParams, ts \in [1..MaxSigParams -> SigTypes] }

\* the program has one class
SigClasses ==
    IF checker.list_class # <<>> THEN {}
    ELSE { ClassDecl("A", None, members) :
             members \in UNION { [1..n -> {MethodDecl(FALSE, void, "f", ps) : ps \in SigParams}] :
                                 n \in 1..MaxSigMethods } }

NextOverload ==
    \/ VisitProgram \/ VisitProgramEnd
    \/ VisitClassDecl(SigClasses) \/ VisitClassDeclEnd
    \/ VisitMethodDecl \/ VisitMethodDeclEnd
    \/ CVisitBlockEnter(1) \/ CVisitBlockExit

SpecOverload == InitCheck /\ [][NextOverload]_vars

\* ------------------------------------------------------------------------
\* StaticChecker: expressions.  self.visit(expr, o) is the operator
\* visit_expr; it yields the exception raised (err) or the value returned
\* (val): a Symbol, a bare Type (visit_this_expression) or None
\* (visit_parenthesized_expression).  Reading an attribute that the value
\* does not have is the exception AttributeError.
\* ------------------------------------------------------------------------
IntLiteral == [kind |-> "IntLiteral"]
FloatLiteral == [kind |-> "FloatLiteral"]
BoolLiteral == [kind |-> "BoolLiteral"]
StringLiteral == [kind |-> "StringLiteral"]
NilLiteral == [kind |-> "NilLiteral"]
ThisExpression == [kind |-> "ThisExpression"]
Identifier(name) == [kind |-> "Identifier", name |-> name]
ParenthesizedExpression(expr) == [kind |-> "ParenthesizedExpression", expr |-> expr]
UnaryOp(operator, operand) ==
    [kind |-> "UnaryOp", operator |-> operator, operand |-> operand]
BinaryOp(left, operator, right) ==
    [kind |-> "BinaryOp", left |-> left, operator |-> operator, right |-> right]
ArrayLiteral(value) == [kind |-> "ArrayLiteral", value |-> value]
ObjectCreation(class_name, arguments) ==
    [kind |-> "ObjectCreation", class_name |-> class_name, args |-> arguments]
MethodCall(method_name, arguments) ==
    [kind |-> "MethodCall", method_name |-> method_name, args |-> arguments]
MemberAccess(member_name) == [kind |-> "MemberAccess", member_name |-> member_name]
ArrayAccess(index) == [kind |-> "ArrayAccess", index |-> index]
PostfixExpression(primary, postfix_ops) ==
    [kind |-> "PostfixExpression", primary |-> primary, postfix_ops |-> postfix_ops]

\* an exception that carries the AST node it was raised with
RaisedAt(err, node) ==
    [status |-> "raised", err |-> err, kind |-> "", name |-> "", node |-> node]
AttributeError == Diagnostic("AttributeError", "", "")

Returns(v) == [err |-> NoError, val |-> v]
Raises(d) == [err |-> d, val |-> None]

\* isinstance(v, Symbol) / isinstance(v, Type)
IsSymbol(v) == v # None /\ "typ" \in DOMAIN v
IsType(v) == v # None /\ "kind" \in DOMAIN v

\* Symbol(name, typ): isfinal and isStatic default to False
Sym(name, typ) == Symbol(name, typ, FALSE, FALSE)

IsPrim(t, names) == t.kind = "PrimitiveType" /\ t.type_name \in names

\* [sym.typ for sym in arg_symbols]
RECURSIVE typ_of_all(_)
typ_of_all(vals) ==
    IF vals = <<>> THEN [err |-> NoError, typs |-> <<>>]
    ELSE IF ~IsSymbol(Head(vals)) THEN [err |-> AttributeError, typs |-> <<>>]
    ELSE LET rest == typ_of_all(Tail(vals))
         IN  [err |-> rest.err, typs |-> <<Head(vals).typ>> \o rest.typs]

\* visit_identifier
visit_identifier(chk, node, o) ==
    LET found == FindInScopes(o, node.name, 1)
    IN  IF found # None THEN Returns(found[1])
        ELSE IF FindClass(chk.list_class, node.name, 1) # None
        THEN Returns(Sym(node.name, ClassType(node.name)))
        ELSE Raises(Diagnostic("UndeclaredIdentifier", "", node.name))

\* visit_this_expression
visit_this_expression(chk, o) ==
    IF chk.in_static_method THEN Raises(Diagnostic("UndeclaredIdentifier", "", "this"))
    ELSE IF chk.current_class # None
    THEN Returns(ClassType(chk.current_class[1].name))
    ELSE LET i == Len(Last(o)) - 1
             n == Len(chk.list_class)
         IN  IF i >= 0 /\ i < n THEN Returns(ClassType(chk.list_class[i + 1].name))
             ELSE IF i = -1 /\ n > 0 THEN Returns(ClassType(chk.list_class[n].name))
             ELSE Raises(Diagnostic("IndexError", "", ""))

\* visit_binary_op after the operands have been visited
binary_op_result(list_class, node, left_type, right_type) ==
    LET operator == node.operator
        numeric == /\ IsPrim(left_type, {"int", "float"})
                   /\ IsPrim(right_type, {"int", "float"})
        mismatch == Raises(RaisedAt("TypeMismatchInExpression", node))
        boolean == Returns(Sym("", PrimitiveType("boolean")))
    IN  IF operator \in {"+", "-", "*", "/"}
        THEN IF ~numeric THEN mismatch
             ELSE IF left_type.type_name = "float" \/ right_type.type_name = "float"
             THEN Returns(Sym("", PrimitiveType("float")))
             ELSE Returns(Sym("", PrimitiveType("int")))
        ELSE IF operator = "%"
        THEN IF IsPrim(left_type, {"int"}) /\ IsPrim(right_type, {"int"})
             THEN Returns(Sym("", PrimitiveType("int"))) ELSE mismatch
        ELSE IF operator = "^"
        THEN IF IsPrim(left_type, {"string"}) /\ IsPrim(right_type, {"string"})
             THEN Returns(Sym("", PrimitiveType("string"))) ELSE mismatch
        ELSE IF operator \in {"==", "!="}
        THEN IF \/ are_types_compatible(list_class, left_type, right_type)
                \/ are_types_compatible(list_class, right_type, left_type)
                \/ numeric
             THEN boolean ELSE mismatch
        ELSE IF operator \in {"<", ">", "<=", ">="}
        THEN IF numeric THEN boolean ELSE mismatch
        ELSE IF operator \in {"&&", "||"}
        THEN IF IsPrim(left_type, {"boolean"}) /\ IsPrim(right_type, {"boolean"})
             THEN boolean ELSE mismatch
        ELSE boolean

\* visit_unary_op after the operand has been visited
unary_op_result(node, operand_type) ==
    IF node.operator = "-"
    THEN IF IsPrim(operand_type, {"int", "float"}) THEN Returns(Sym("", operand_type))
         ELSE Raises(RaisedAt("TypeMismatchInExpression", node))
    ELSE IF node.operator = "!"
    THEN IF IsPrim(operand_type, {"boolean"})
         THEN Returns(Sym("", PrimitiveType("boolean")))
         ELSE Raises(RaisedAt("TypeMismatchInExpression", node))
    ELSE Returns(Sym("", operand_type))

\* the loop of visit_array_literal over element_symbols[1:]
RECURSIVE array_literal_elements(_, _, _)
array_literal_elements(node, array_type, vals) ==
    IF vals = <<>> THEN NoError
    ELSE IF ~IsSymbol(Head(vals)) THEN AttributeError
    ELSE IF \/ array_type.kind # Head(vals).typ.kind
            \/ /\ array_type.kind = "PrimitiveType"
               /\ array_type.type_name # Head(vals).typ.type_name
    THEN RaisedAt("IllegalArrayLiteral", node)
    ELSE array_literal_elements(node, array_type, Tail(vals))

\* the constructors of visit_object_creation, in declaration order
RECURSIVE AllCompatible(_, _, _)
AllCompatible(list_class, param_types, arg_types) ==
    \/ param_types = <<>>
    \/ arg_types = <<>>
    \/ /\ are_types_compatible(list_class, Head(param_types), Head(arg_types))
       /\ AllCompatible(list_class, Tail(param_types), Tail(arg_types))

found_constructor(list_class, class_decl, node, arg_types) ==
    LET constructors == SelectSeq(class_decl.members,
                                  LAMBDA mem : mem.kind = "ConstructorDecl")
    IN  IF constructors = <<>> /\ node.args = <<>> THEN TRUE
        ELSE \E k \in 1..Len(constructors) :
                 /\ Len(constructors[k].params) = Len(arg_types)
                 /\ AllCompatible(list_class, ParamTypes(constructors[k].params),
                                  arg_types)

\* io_api of visit_postfix_expression: None, or the parameter types and the
\* return type of the library method
io_api(method_name) ==
    CASE method_name = "readInt" -> Some([params |-> <<>>, return_type |-> PrimitiveType("int")])
      [] method_name \in {"writeInt", "writeIntLn"} ->
             Some([params |-> <<PrimitiveType("int")>>, return_type |-> PrimitiveType("void")])
      [] method_name = "readFloat" ->
             Some([params |-> <<>>, return_type |-> PrimitiveType("float")])
      [] method_name \in {"writeFloat", "writeFloatLn"} ->
             Some([params |-> <<PrimitiveType("float")>>, return_type |-> PrimitiveType("void")])
      [] method_name = "readBool" ->
             Some([params |-> <<>>, return_type |-> PrimitiveType("boolean")])
      [] method_name \in {"writeBool", "writeBoolLn"} ->
             Some([params |-> <<PrimitiveType("boolean")>>, return_type |-> PrimitiveType("void")])
      [] method_name = "readStr" ->
             Some([params |-> <<>>, return_type |-> PrimitiveType("string")])
      [] method_name \in {"writeStr", "writeStrLn"} ->
             Some([params |-> <<PrimitiveType("string")>>, return_type |-> PrimitiveType("void")])
      [] OTHER -> None

\* next(filter(lambda m: <kind> and m.name == name, members), None)
RECURSIVE FindMember(_, _, _, _)
FindMember(members, kind, name, k) ==
    IF k > Len(members) THEN None
    ELSE IF members[k].kind = kind /\ members[k].name = name THEN Some(members[k])
    ELSE FindMember(members, kind, name, k + 1)

\* the while loops of visit_postfix_expression: the first member of that
\* kind and name in current_class (None or Some(decl)) or in its ancestors
RECURSIVE FindInherited(_, _, _, _)
FindInherited(list_class, current_class, kind, name) ==
    IF current_class = None THEN None
    ELSE LET found == FindMember(current_class[1].members, kind, name, 1)
         IN  IF found # None THEN found
             ELSE IF current_class[1].superclass # None
             THEN FindInherited(list_class,
                                FindClass(list_class, current_class[1].superclass[1], 1),
                                kind, name)
             ELSE None

RECURSIVE visit_expr(_, _, _)
RECURSIVE visit_all(_, _, _)
RECURSIVE postfix_ops_loop(_, _, _, _, _, _, _)

\* [self.visit(arg, o) for arg in args]
visit_all(chk, exprs, o) ==
    IF exprs = <<>> THEN [err |-> NoError, vals |-> <<>>]
    ELSE LET first == visit_expr(chk, Head(exprs), o)
         IN  IF first.err.err # "none" THEN [err |-> first.err, vals |-> <<>>]
             ELSE LET rest == visit_all(chk, Tail(exprs), o)
                  IN  [err |-> rest.err, vals |-> <<first.val>> \o rest.vals]

\* the arguments of a call: visited, then the type of each is read
arg_types_of(chk, exprs, o) ==
    LET arg_symbols == visit_all(chk, exprs, o)
    IN  IF arg_symbols.err.err # "none" THEN [err |-> arg_symbols.err, typs |-> <<>>]
        ELSE typ_of_all(arg_symbols.vals)

\* one turn of `for op in node.postfix_ops`, then the rest of the loop and
\* the return of visit_postfix_expression
postfix_ops_loop(chk, node, o, is_static_access, obj_type, final_member_symbol, k) ==
    IF k > Len(node.postfix_ops)
    THEN LET last_op == Last(node.postfix_ops)
         IN  IF last_op.kind = "MemberAccess" THEN Returns(final_member_symbol)
             ELSE IF last_op.kind = "MethodCall" THEN Returns(Sym("", obj_type))
             ELSE Returns(final_member_symbol)
    ELSE
    LET postfix_op == node.postfix_ops[k]
        mismatch == Raises(RaisedAt("TypeMismatchInExpression", node))
        illegal == Raises(RaisedAt("IllegalMemberAccess", node))
    IN  IF postfix_op.kind = "ArrayAccess"
        THEN IF obj_type.kind # "ArrayType" THEN mismatch
             ELSE LET idx_sym == visit_expr(chk, postfix_op.index, o)
                  IN  IF idx_sym.err.err # "none" THEN idx_sym
                      ELSE IF ~IsSymbol(idx_sym.val) THEN Raises(AttributeError)
                      ELSE IF ~IsPrim(idx_sym.val.typ, {"int"}) THEN mismatch
                      ELSE postfix_ops_loop(chk, node, o, is_static_access,
                                            obj_type.element_type,
                                            Sym("", obj_type.element_type), k + 1)
        ELSE IF obj_type.kind # "ClassType" THEN mismatch
        ELSE IF obj_type.class_name = "io"
        THEN IF postfix_op.kind # "MethodCall" THEN illegal
             ELSE LET arg_types == arg_types_of(chk, postfix_op.args, o)
                      api == io_api(postfix_op.method_name)
                  IN  IF arg_types.err.err # "none" THEN Raises(arg_types.err)
                      ELSE IF api = None
                      THEN Raises(Diagnostic("UndeclaredMethod", "", postfix_op.method_name))
                      ELSE IF Len(arg_types.typs) # Len(api[1].params) THEN mismatch
                      ELSE IF /\ Len(api[1].params) > 0
                              /\ ~are_types_compatible(chk.list_class, api[1].params[1],
                                                       arg_types.typs[1])
                      THEN mismatch
                      ELSE postfix_ops_loop(chk, node, o, is_static_access,
                                            api[1].return_type, final_member_symbol, k + 1)
        ELSE
        LET class_decl == FindClass(chk.list_class, obj_type.class_name, 1)
        IN  IF class_decl = None
            THEN Raises(Diagnostic("UndeclaredClass", "", obj_type.class_name))
            ELSE IF postfix_op.kind = "MemberAccess"
            THEN LET member == FindInherited(chk.list_class, class_decl, "AttributeDecl",
                                             postfix_op.member_name)
                 IN  IF member = None
                     THEN Raises(Diagnostic("UndeclaredAttribute", "", postfix_op.member_name))
                     ELSE IF is_static_access /\ ~member[1].is_static THEN illegal
                     ELSE IF /\ ~is_static_access /\ member[1].is_static
                             /\ node.primary.kind # "ThisExpression"
                     THEN illegal
                     ELSE postfix_ops_loop(chk, node, o, is_static_access,
                              member[1].attr_type,
                              Symbol(postfix_op.member_name, member[1].attr_type,
                                     member[1].is_final, member[1].is_static),
                              k + 1)
            ELSE IF postfix_op.kind = "MethodCall"
            THEN LET found_method == FindInherited(chk.list_class, class_decl, "MethodDecl",
                                                   postfix_op.method_name)
                     arg_types == arg_types_of(chk, postfix_op.args, o)
                 IN  IF found_method = None
                     THEN Raises(Diagnostic("UndeclaredMethod", "", postfix_op.method_name))
                     ELSE IF arg_types.err.err # "none" THEN Raises(arg_types.err)
                     ELSE IF Len(found_method[1].params) # Len(arg_types.typs) THEN mismatch
                     ELSE IF ~AllCompatible(chk.list_class,
                                            ParamTypes(found_method[1].params),
                                            arg_types.typs)
                     THEN mismatch
                     ELSE IF is_static_access /\ ~found_method[1].is_static THEN illegal
                     ELSE IF ~is_static_access /\ found_method[1].is_static THEN illegal
                     ELSE postfix_ops_loop(chk, node, o, is_static_access,
                              found_method[1].return_type,
                              Symbol(postfix_op.method_name,
                                     FunctionType(ParamTypes(found_method[1].params),
                                                  found_method[1].return_type),
                                     FALSE, found_method[1].is_static),
                              k + 1)
            ELSE postfix_ops_loop(chk, node, o, is_static_access, obj_type,
                                  final_member_symbol, k + 1)

\* visit_postfix_expression (a chain with at least one postfix op, as the
\* AST generator builds it)
visit_postfix_expression(chk, node, o) ==
    LET is_static_access ==
            /\ node.primary.kind = "Identifier"
            /\ FindClass(chk.list_class, node.primary.name, 1) # None
        primary == visit_expr(chk, node.primary, o)
    IN  IF primary.err.err # "none" THEN primary
        ELSE IF IsType(primary.val)
        THEN postfix_ops_loop(chk, node, o, is_static_access, primary.val, None, 1)
        ELSE IF ~IsSymbol(primary.val) THEN Raises(AttributeError)
        ELSE postfix_ops_loop(chk, node, o, is_static_access, primary.val.typ, None, 1)

\* visit_object_creation
visit_object_creation(chk, node, o) ==
    LET class_decl == FindClass(chk.list_class, node.class_name, 1)
        arg_types == arg_types_of(chk, node.args, o)
    IN  IF class_decl = None
        THEN Raises(Diagnostic("UndeclaredClass", "", node.class_name))
        ELSE IF arg_types.err.err # "none" THEN Raises(arg_types.err)
        ELSE IF ~found_constructor(chk.list_class, class_decl[1], node, arg_types.typs)
        THEN Raises(RaisedAt("TypeMismatchInExpression", node))
        ELSE Returns(Sym(node.class_name, ClassType(node.class_name)))

\* visit_array_literal
visit_array_literal(chk, node, o) ==
    IF node.value = <<>>
    THEN Returns(Sym("", ArrayType(PrimitiveType("unknown"), 0)))
    ELSE LET element_symbols == visit_all(chk, node.value, o)
         IN  IF element_symbols.err.err # "none" THEN Raises(element_symbols.err)
             ELSE IF ~IsSymbol(element_symbols.vals[1]) THEN Raises(AttributeError)
             ELSE LET array_type == element_symbols.vals[1].typ
                      d == array_literal_elements(node, array_type,
                                                  Tail(element_symbols.vals))
                  IN  IF d.err # "none" THEN Raises(d)
                      ELSE Returns(Sym("", ArrayType(array_type, Len(node.value))))

\* self.visit(expr, o): the visit_* method of the node's class
visit_expr(chk, expr, o) ==
    CASE expr.kind = "IntLiteral" -> Returns(Sym("", PrimitiveType("int")))
      [] expr.kind = "FloatLiteral" -> Returns(Sym("", PrimitiveType("float")))
      [] expr.kind = "BoolLiteral" -> Returns(Sym("", PrimitiveType("boolean")))
      [] expr.kind = "StringLiteral" -> Returns(Sym("", PrimitiveType("string")))
      [] expr.kind = "NilLiteral" -> Returns(Sym("", PrimitiveType("nil")))
      [] expr.kind = "Identifier" -> visit_identifier(chk, expr, o)
      [] expr.kind = "ThisExpression" -> visit_this_expression(chk, o)
      [] expr.kind = "ParenthesizedExpression" ->
             LET inner == visit_expr(chk, expr.expr, o)
             IN  IF inner.err.err # "none" THEN inner ELSE Returns(None)
      [] expr.kind = "UnaryOp" ->
             LET operand_sym == visit_expr(chk, expr.operand, o)
             IN  IF operand_sym.err.err # "none" THEN operand_sym
                 ELSE IF ~IsSymbol(operand_sym.val) THEN Raises(AttributeError)
                 ELSE unary_op_result(expr, operand_sym.val.typ)
      [] expr.kind = "BinaryOp" ->
             LET left_sym == visit_expr(chk, expr.left, o)
                 right_sym == visit_expr(chk, expr.right, o)
             IN  IF left_sym.err.err # "none" THEN left_sym
                 ELSE IF right_sym.err.err # "none" THEN right_sym
                 ELSE IF ~IsSymbol(left_sym.val) \/ ~IsSymbol(right_sym.val)
                 THEN Raises(AttributeError)
                 ELSE binary_op_result(chk.list_class, expr, left_sym.val.typ,
                                       right_sym.val.typ)
      [] expr.kind = "ArrayLiteral" -> visit_array_literal(chk, expr, o)
      [] expr.kind = "ObjectCreation" -> visit_object_creation(chk, expr, o)
      [] expr.kind = "PostfixExpression" -> visit_postfix_expression(chk, expr, o)

\* _check_is_constant_expr: NoError, or the IllegalConstantExpression raised
\* with the node it names.  recursive_check re-raises a child's error at the
\* current node; the elements of an array literal and the arguments of an
\* object creation are checked by a direct call.  expr is None for a
\* declaration without initializer.
RECURSIVE check_is_constant_expr(_, _, _)
RECURSIVE check_all_constant(_, _, _)

check_all_constant(chk, exprs, o) ==
    IF exprs = <<>> THEN NoError
    ELSE LET d == check_is_constant_expr(chk, Head(exprs), o)
         IN  IF d.err # "none" THEN d ELSE check_all_constant(chk, Tail(exprs), o)

recursive_check(chk, expr, child_expr, o) ==
    IF check_is_constant_expr(chk, child_expr, o).err = "IllegalConstantExpression"
    THEN RaisedAt("IllegalConstantExpression", expr)
    ELSE NoError

check_is_constant_expr(chk, expr, o) ==
    IF expr = None THEN RaisedAt("IllegalConstantExpression", NilLiteral)
    ELSE IF expr.kind = "NilLiteral" THEN RaisedAt("IllegalConstantExpression", expr)
    ELSE IF expr.kind \in {"IntLiteral", "FloatLiteral", "BoolLiteral", "StringLiteral"}
    THEN NoError
    ELSE IF expr.kind = "ArrayLiteral" THEN check_all_constant(chk, expr.value, o)
    ELSE IF expr.kind = "ObjectCreation" THEN check_all_constant(chk, expr.args, o)
    ELSE IF expr.kind = "ParenthesizedExpression"
    THEN recursive_check(chk, expr, expr.expr, o)
    ELSE IF expr.kind = "BinaryOp"
    THEN LET d == recursive_check(chk, expr, expr.left, o)
         IN  IF d.err # "none" THEN d ELSE recursive_check(chk, expr, expr.right, o)
    ELSE IF expr.kind = "UnaryOp" THEN recursive_check(chk, expr, expr.operand, o)
    ELSE IF expr.kind \in {"Identifier", "PostfixExpression"}
    THEN LET sym == visit_expr(chk, expr, o)
         IN  IF sym.err.err # "none" THEN RaisedAt("IllegalConstantExpression", expr)
             ELSE IF IsSymbol(sym.val) /\ sym.val.isfinal THEN NoError
             ELSE RaisedAt("IllegalConstantExpression", expr)
    ELSE RaisedAt("IllegalConstantExpression", expr)

\* VariableDecl / AttributeDecl with one variable; init_value is None or an
\* expression
VariableDecl(is_final, var_type, name, init_value) ==
    [kind |-> "VariableDecl", is_final |-> is_final, var_type |-> var_type,
     name |-> name, init_value |-> init_value]
AttributeDeclInit(is_static, is_final, attr_type, name, init_value) ==
    [kind |-> "AttributeDecl", is_static |-> is_static, is_final |-> is_final,
     attr_type |-> attr_type, name |-> name, init_value |-> init_value]

\* visit_variable_decl
visit_variable_decl_check(chk, node, o) ==
    LET constant == IF node.is_final
                    THEN check_is_constant_expr(chk, node.init_value, o)
                    ELSE NoError
        init_sym == visit_expr(chk, node.init_value, o)
    IN  IF FindSym(o[1], node.name, 1) # None
        THEN Diagnostic("Redeclared", IF node.is_final THEN "Constant" ELSE "Variable",
                        node.name)
        ELSE IF constant.err # "none" THEN constant
        ELSE IF node.init_value = None THEN NoError
        ELSE IF init_sym.err.err # "none" THEN init_sym.err
        ELSE IF ~IsSymbol(init_sym.val) THEN AttributeError
        ELSE IF ~are_types_compatible(chk.list_class, node.var_type, init_sym.val.typ)
        THEN RaisedAt(IF node.is_final THEN "TypeMismatchInConstant"
                      ELSE "TypeMismatchInStatement", node)
        ELSE NoError

\* visit_attribute_decl
visit_attribute_decl_init_check(chk, node, o) ==
    LET constant == IF node.is_final /\ node.init_value # None
                    THEN check_is_constant_expr(chk, node.init_value, o)
                    ELSE NoError
        init_sym == visit_expr(chk, node.init_value, o)
    IN  IF FindSym(o[1], node.name, 1) # None
        THEN Diagnostic("Redeclared", IF node.is_final THEN "Constant" ELSE "Attribute",
                        node.name)
        ELSE IF constant.err # "none" THEN constant
        ELSE IF node.init_value = None THEN NoError
        ELSE IF init_sym.err.err # "none" THEN init_sym.err
        ELSE IF ~IsSymbol(init_sym.val) THEN AttributeError
        ELSE IF /\ node.is_final
                /\ ~are_types_compatible(chk.list_class, node.attr_type, init_sym.val.typ)
        THEN RaisedAt("TypeMismatchInConstant", node)
        ELSE NoError

\* AssignmentStatement; lhs is an IdLHS or a PostfixLHS
IdLHS(name) == [kind |-> "IdLHS", name |-> name]
PostfixLHS(postfix_expr) == [kind |-> "PostfixLHS", postfix_expr |-> postfix_expr]
AssignmentStatement(lhs, rhs) == [kind |-> "AssignmentStatement", lhs |-> lhs, rhs |-> rhs]

\* visit_id_lhs / visit_postfix_lhs
visit_lhs(chk, node, o) ==
    IF node.kind = "IdLHS"
    THEN LET found == FindInScopes(o, node.name, 1)
         IN  IF found = None THEN Raises(Diagnostic("UndeclaredIdentifier", "", node.name))
             ELSE Returns(found[1])
    ELSE LET r == visit_expr(chk, node.postfix_expr, o)
         IN  IF r.err.err = "IllegalMemberAccess"
             THEN Raises(RaisedAt("IllegalMemberAccess", node))
             ELSE r

\* visit_assignment_statement
visit_assignment_statement_check(chk, node, o) ==
    LET lhs_symbol == visit_lhs(chk, node.lhs, o)
        rhs_symbol == visit_expr(chk, node.rhs, o)
    IN  IF lhs_symbol.err.err # "none" THEN lhs_symbol.err
        ELSE IF rhs_symbol.err.err # "none" THEN rhs_symbol.err
        ELSE IF ~IsSymbol(lhs_symbol.val) THEN AttributeError
        ELSE IF lhs_symbol.val.isfinal THEN RaisedAt("CannotAssignToConstant", node)
        ELSE IF ~IsSymbol(rhs_symbol.val) THEN AttributeError
        ELSE IF ~are_types_compatible(chk.list_class, lhs_symbol.val.typ,
                                      rhs_symbol.val.typ)
        THEN RaisedAt("TypeMismatchInStatement", node)
        ELSE NoError

VisitAttributeDeclInit ==
    /\ AtMember("AttributeDecl")
    /\ LET node == NextMember
       IN  CheckStep("visit_attribute_decl", Some(node),
                     visit_attribute_decl_init_check(checker, node, CTop.o), checker,
                     MemberDone(cwalk,
                         <<Symbol(node.name, node.attr_type, node.is_final, node.is_static)>>
                         \o CTop.o[1]))

\* visit_block_statement, one turn of the reduce over node.var_decls: the
\* declaration is visited with [acc] + o and returns the grown local scope.
\* Declarations stand at the head of their block.
CVisitVariableDecl(Decls) ==
    /\ outcome.status = "running"
    /\ CTop.kind = "block"
    /\ op \in {"visit_block_statement", "visit_variable_decl"}
    /\ Len(CTop.o[1]) < MaxDecls
    /\ \E node \in Decls :
           CheckStep("visit_variable_decl", Some(node),
                     visit_variable_decl_check(checker, node, CTop.o), checker,
                     [cwalk EXCEPT ![Len(cwalk)].o =
                         << <<Symbol(node.name, node.var_type, node.is_final, FALSE)>>
                            \o CTop.o[1] >> \o Tail(CTop.o)])

CVisitAssignment(Stmts) ==
    /\ CStmtSlot
    /\ \E node \in Stmts :
           CheckStep("visit_assignment_statement", Some(node),
                     visit_assignment_statement_check(checker, node, CTop.o), checker,
                     CChildDone(cwalk))

\* ReturnStatement; value is None or an expression
ReturnStatement(value) == [kind |-> "ReturnStatement", value |-> value]

\* visit_return_statement
visit_return_statement_check(chk, node, o) ==
    IF chk.current_return_type = None THEN NoError
    ELSE
    LET expected_type == chk.current_return_type[1]
        return_sym == visit_expr(chk, node.value, o)
    IN  IF IsPrim(expected_type, {"void"})
        THEN IF node.value # None /\ node.value.kind # "NilLiteral"
             THEN RaisedAt("TypeMismatchInStatement", node)
             ELSE NoError
        ELSE IF node.value = None \/ node.value.kind = "NilLiteral"
        THEN RaisedAt("TypeMismatchInStatement", node)
        ELSE IF return_sym.err.err # "none" THEN return_sym.err
        ELSE IF ~IsSymbol(return_sym.val) THEN AttributeError
        ELSE LET actual_type == return_sym.val.typ
             IN  IF expected_type.kind # actual_type.kind
                 THEN RaisedAt("TypeMismatchInStatement", node)
                 ELSE IF /\ expected_type.kind = "PrimitiveType"
                         /\ expected_type.type_name # actual_type.type_name
                 THEN RaisedAt("TypeMismatchInStatement", node)
                 ELSE IF /\ expected_type.kind = "ClassType"
                         /\ expected_type.class_name # actual_type.class_name
                 THEN RaisedAt("TypeMismatchInStatement", node)
                 ELSE NoError

CVisitReturn(Stmts) ==
    /\ CStmtSlot
    /\ \E node \in Stmts :
           CheckStep("visit_return_statement", Some(node),
                     visit_return_statement_check(checker, node, CTop.o), checker,
                     CChildDone(cwalk))

\* ------------------------------------------------------------------------
\* SpecBody: check_program on a new StaticChecker, over one class with one
\* parameterless method (and possibly an attribute i before it) whose body
\* is one block that declares locals with initializers, assigns and loops
\* ------------------------------------------------------------------------
ExprAtoms ==
    { IntLiteral, BoolLiteral, NilLiteral, ThisExpression,
      Identifier("y"), Identifier("i"),
      ArrayLiteral(<<>>), ObjectCreation("A", <<>>) }

\* expressions nested depth levels deep
RECURSIVE Exprs(_)
Exprs(depth) ==
    IF depth = 0 THEN ExprAtoms
    ELSE LET S == Exprs(depth - 1)
         IN  ExprAtoms
             \cup { ParenthesizedExpression(e) : e \in S }
             \cup { UnaryOp("-", e) : e \in S }
             \cup { BinaryOp(e, "+", IntLiteral) : e \in S }
             \cup { BinaryOp(IntLiteral, "+", e) : e \in S }
             \cup { ArrayLiteral(<<e>>) : e \in S }
             \cup { ObjectCreation("A", <<e>>) : e \in S }

BodyDecls ==
    { VariableDecl(is_final, var_type, name, init_value) :
        is_final \in BOOLEAN, var_type \in {int, ClassType("A")}, name \in {"y", "i"},
        init_value \in {None} \cup Exprs(MaxExprDepth) }

BodyAssignments ==
    { AssignmentStatement(lhs, rhs) :
        lhs \in { IdLHS("y"), IdLHS("i"),
                  PostfixLHS(PostfixExpression(ThisExpression, <<MemberAccess("i")>>)) },
        rhs \in Exprs(1) }

BodyClasses ==
    IF checker.list_class # <<>> THEN {}
    ELSE { ClassDecl("A", None, attrs \o <<MethodDecl(is_static, void, "main", <<>>)>>) :
             is_static \in BOOLEAN,
             attrs \in { <<>>,
                         <<AttributeDeclInit(FALSE, TRUE, int, "i", IntLiteral)>>,
                         <<AttributeDeclInit(FALSE, FALSE, int, "i", None)>> } }

NextBody ==
    \/ VisitProgram \/ VisitProgramEnd
    \/ VisitClassDecl(BodyClasses) \/ VisitClassDeclEnd
    \/ VisitAttributeDeclInit
    \/ VisitMethodDecl \/ VisitMethodDeclEnd
    \/ CVisitBlockEnter(1) \/ CVisitBlockExit
    \/ CVisitVariableDecl(BodyDecls)
    \/ CVisitAssignment(BodyAssignments)
    \/ CVisitForEnter(MaxBodyNest) \/ CVisitForExit
    \/ CVisitBreak \/ CVisitContinue

SpecBody == InitCheck /\ [][NextBody]_vars

\* ------------------------------------------------------------------------
\* SpecMember: check_program on a new StaticChecker, over one class whose
\* members (attributes x and y, methods f and g, a constructor, a
\* destructor) name one another in their initializers and bodies
\* ------------------------------------------------------------------------
MemberNames == {"x", "y", "f"}

ClassMembers ==
    { AttributeDeclInit(FALSE, FALSE, int, name, init_value) :
        name \in {"x", "y"},
        init_value \in {None} \cup {Identifier(n) : n \in MemberNames} }
    \cup { MethodDecl(FALSE, int, name, <<>>) : name \in {"f", "g"} }
    \cup { ConstructorDecl("A", <<>>), DestructorDecl("A") }

MemberClasses ==
    IF checker.list_class # <<>> THEN {}
    ELSE { ClassDecl("A", None, members) :
             members \in UNION { [1..n -> ClassMembers] : n \in 1..MaxMembers } }

\* the declarations of a member body: int v := <name>;
MemberDecls == { VariableDecl(FALSE, int, "v", Identifier(n)) : n \in MemberNames }

NextMemberRefs ==
    \/ VisitProgram \/ VisitProgramEnd
    \/ VisitClassDecl(MemberClasses) \/ VisitClassDeclEnd
    \/ VisitAttributeDeclInit
    \/ VisitMethodDecl \/ VisitMethodDeclEnd
    \/ VisitConstructorDecl \/ VisitConstructorDeclEnd
    \/ VisitDestructorDecl \/ VisitDestructorDeclEnd
    \/ CVisitBlockEnter(1) \/ CVisitBlockExit
    \/ CVisitVariableDecl(MemberDecls)

SpecMember == InitCheck /\ [][NextMemberRefs]_vars

\* ------------------------------------------------------------------------
\* SpecCall: check_program on a new StaticChecker, over one class with
\* static and instance attributes and methods, overloads of f, and a method
\* run whose body reaches them through this, the class name and a local
\* of the class type
\* ------------------------------------------------------------------------
boolean == PrimitiveType("boolean")

CallMembers ==
    { AttributeDeclInit(TRUE, FALSE, int, "s", None),
      AttributeDeclInit(FALSE, FALSE, int, "a", None),
      MethodDecl(TRUE, int, "sm", <<>>),
      MethodDecl(FALSE, int, "im", <<>>),
      MethodDecl(FALSE, int, "f", <<>>),
      MethodDecl(FALSE, int, "f", <<Parameter("a", int)>>),
      MethodDecl(FALSE, int, "f", <<Parameter("a", float)>>),
      MethodDecl(FALSE, int, "f", <<Parameter("a", boolean)>>) }

CallClasses ==
    IF checker.list_class # <<>> THEN {}
    ELSE { ClassDecl("A", None, members \o <<MethodDecl(is_static, void, "run", <<>>)>>) :
             is_static \in BOOLEAN,
             members \in UNION { [1..n -> CallMembers] : n \in 1..MaxSigMethods } }

CallReceivers == {ThisExpression, Identifier("A"), Identifier("obj")}

CallOps ==
    { MemberAccess("s"), MemberAccess("a"),
      MethodCall("sm", <<>>), MethodCall("im", <<>>), MethodCall("f", <<>>),
      MethodCall("f", <<IntLiteral>>), MethodCall("f", <<BoolLiteral>>) }

\* the declarations of run's body: A obj; int v := <receiver>.<member>;
CallDecls ==
    { VariableDecl(FALSE, ClassType("A"), "obj", None) }
    \cup { VariableDecl(FALSE, int, "v", PostfixExpression(primary, <<postfix_op>>)) :
             primary \in CallReceivers, postfix_op \in CallOps }

NextCall ==
    \/ VisitProgram \/ VisitProgramEnd
    \/ VisitClassDecl(CallClasses) \/ VisitClassDeclEnd
    \/ VisitAttributeDeclInit
    \/ VisitMethodDecl \/ VisitMethodDeclEnd
    \/ CVisitBlockEnter(1) \/ CVisitBlockExit
    \/ CVisitVariableDecl(CallDecls)

SpecCall == InitCheck /\ [][NextCall]_vars

\* ------------------------------------------------------------------------
\* SpecFrame: a client calling the methods of one Frame in any order
\* ------------------------------------------------------------------------
InitFrame ==
    /\ frame = NewFrame
    /\ exc = "none"
    /\ ret = None
    /\ op = "__init__"
    /\ scopeEntry = <<>>
    /\ matchIndex = 0
    /\ hiIndex = 0
    /\ memberUse = "fresh"
    /\ walk = <<>>
    /\ emitted = NoBranch
    /\ InitChecker
    /\ InitNoCall

\* the call `name` returned or raised with result r
Called(name, r) ==
    /\ UNCHANGED <<genVars, chkVars, funVars>>
    /\ frame' = r.frame
    /\ exc' = r.exc
    /\ ret' = r.ret
    /\ op' = name
    /\ hiIndex' = Max(hiIndex, r.frame.curr_index)

\* a call that is within the one-member discipline keeps it
KeepsUse == memberUse' = IF memberUse = "fresh" THEN "other" ELSE memberUse

FGetCurrIndex ==
    /\ Called("get_curr_index", get_curr_index(frame))
    /\ KeepsUse /\ UNCHANGED <<scopeEntry, matchIndex>>

FSetCurrIndex ==
    \E index \in 0..MaxIndex :
        /\ Called("set_curr_index", set_curr_index(frame, index))
        /\ memberUse' = "other"
        /\ UNCHANGED <<scopeEntry, matchIndex>>

FGetNewLabel ==
    /\ frame.current_label < MaxLabel
    /\ Called("get_new_label", get_new_label(frame))
    /\ KeepsUse /\ UNCHANGED <<scopeEntry, matchIndex>>

FPush ==
    /\ frame.curr_op_stack_size < MaxStack
    /\ Called("push", push(frame))
    /\ KeepsUse /\ UNCHANGED <<scopeEntry, matchIndex>>

FPop ==
    /\ frame.curr_op_stack_size > -MaxUnderflow
    /\ Called("pop", pop(frame))
    /\ KeepsUse /\ UNCHANGED <<scopeEntry, matchIndex>>

FGetStackSize ==
    /\ Called("get_stack_size", get_stack_size(frame))
    /\ KeepsUse /\ UNCHANGED <<scopeEntry, matchIndex>>

FGetMaxOpStackSize ==
    /\ Called("get_max_op_stack_size", get_max_op_stack_size(frame))
    /\ KeepsUse /\ UNCHANGED <<scopeEntry, matchIndex>>

FCheckOpStack ==
    /\ Called("check_op_stack", check_op_stack(frame))
    /\ KeepsUse /\ UNCHANGED <<scopeEntry, matchIndex>>

FEnterScope ==
    \E is_proc \in BOOLEAN :
        /\ frame.current_label + 2 <= MaxLabel
        /\ Len(frame.start_label) < MaxScopes
        /\ Called("enter_scope", enter_scope(frame, is_proc))
        /\ scopeEntry' = Append(scopeEntry, frame.curr_index)
        /\ memberUse' = IF memberUse = "fresh" /\ is_proc THEN "member"
                        ELSE IF memberUse = "member" /\ ~is_proc THEN "member"
                        ELSE "other"
        /\ UNCHANGED matchIndex

FExitScope ==
    /\ Called("exit_scope", exit_scope(frame))
    /\ IF scopeEntry # <<>>
       THEN matchIndex' = Last(scopeEntry) /\ scopeEntry' = Front(scopeEntry)
       ELSE UNCHANGED <<scopeEntry, matchIndex>>
    /\ KeepsUse

FGetStartLabel ==
    /\ Called("get_start_label", get_start_label(frame))
    /\ KeepsUse /\ UNCHANGED <<scopeEntry, matchIndex>>

FGetEndLabel ==
    /\ Called("get_end_label", get_end_label(frame))
    /\ KeepsUse /\ UNCHANGED <<scopeEntry, matchIndex>>

FGetNewIndex ==
    /\ frame.curr_index < MaxIndex
    /\ Called("get_new_index", get_new_index(frame))
    /\ KeepsUse /\ UNCHANGED <<scopeEntry, matchIndex>>

FGetMaxIndex ==
    /\ Called("get_max_index", get_max_index(frame))
    /\ KeepsUse /\ UNCHANGED <<scopeEntry, matchIndex>>

FEnterLoop ==
    /\ frame.current_label + 2 <= MaxLabel
    /\ Len(frame.con_label) < MaxLoops
    /\ Called("enter_loop", enter_loop(frame))
    /\ KeepsUse /\ UNCHANGED <<scopeEntry, matchIndex>>

FExitLoop ==
    /\ Called("exit_loop", exit_loop(frame))
    /\ KeepsUse /\ UNCHANGED <<scopeEntry, matchIndex>>

FGetContinueLabel ==
    /\ Called("get_continue_label", get_continue_label(frame))
    /\ KeepsUse /\ UNCHANGED <<scopeEntry, matchIndex>>

FGetBreakLabel ==
    /\ Called("get_break_label", get_break_label(frame))
    /\ KeepsUse /\ UNCHANGED <<scopeEntry, matchIndex>>

NextFrame ==
    \/ FGetCurrIndex \/ FSetCurrIndex \/ FGetNewLabel \/ FPush \/ FPop
    \/ FGetStackSize \/ FGetMaxOpStackSize \/ FCheckOpStack
    \/ FEnterScope \/ FExitScope \/ FGetStartLabel \/ FGetEndLabel
    \/ FGetNewIndex \/ FGetMaxIndex \/ FEnterLoop \/ FExitLoop
    \/ FGetContinueLabel \/ FGetBreakLabel

SpecFrame == InitFrame /\ [][NextFrame]_vars

\* ------------------------------------------------------------------------
\* CodeGenerator (codegen/codegen.py): the statement walk of one member.
\* The member's body is supplied node by node: each action is the part of a
\* visit_* method that runs before or after the visits of its children.
\* ------------------------------------------------------------------------
Names == {"i", "j"}
MethodNames == {"main", "foo"}

\* result of a sequence of Frame calls: stop at the first one that raises
Bind(r, F(_)) == IF r.exc = "none" THEN F(r.frame) ELSE r

\* an open visit_* call: kind, how far it got, the symbols it passes to its
\* children (Symbol(name, type, Index(idx)), first match wins) and its labels
Open(kind, phase, sym, labels) ==
    [kind |-> kind, phase |-> phase, sym |-> sym, labels |-> labels]

Top == walk[Len(walk)]

\* next(s for s in o.sym if s.name == name): position of the first match, 0 if none
RECURSIVE FirstSym(_, _, _)
FirstSym(sym, name, k) ==
    IF k > Len(sym) THEN 0
    ELSE IF sym[k].name = name THEN k
    ELSE FirstSym(sym, name, k + 1)

\* a child statement returned to the visit_* call that is now innermost
ChildDone(w) ==
    IF w = <<>> THEN w
    ELSE LET a == w[Len(w)]
             ph == CASE a.kind = "method" -> "body_done"
                     [] a.kind = "block" -> "stmts"
                     [] a.kind = "for" -> "body_done"
                     [] a.kind = "if" /\ a.phase = "then_pending" -> "then_done"
                     [] a.kind = "if" -> "else_done"
         IN  [w EXCEPT ![Len(w)].phase = ph]

\* a statement may start here: in a block, or as the body of a for / if
StmtSlot ==
    /\ exc = "none"
    /\ walk # <<>>
    /\ \/ Top.kind = "block"
       \/ Top.kind = "for" /\ Top.phase = "body_pending"
       \/ Top.kind = "if" /\ Top.phase \in {"then_pending", "else_pending"}

GenStep(name, r, w, e) ==
    /\ frame' = r.frame
    /\ exc' = r.exc
    /\ ret' = r.ret
    /\ op' = name
    /\ walk' = IF r.exc = "none" THEN w ELSE walk
    /\ emitted' = IF r.exc = "none" THEN e ELSE emitted
    /\ UNCHANGED <<scopeEntry, matchIndex, hiIndex, memberUse>>
    /\ UNCHANGED <<chkVars, funVars>>

\* generate_method up to the visit of the body: a new Frame (visit_method_decl),
\* the member's scope, slot 0 for main's argument vector or for this, one slot
\* per parameter
RECURSIVE param_slots(_, _, _)
param_slots(f, params, sym) ==
    IF params = <<>> THEN [frame |-> f, exc |-> "none", ret |-> sym]
    ELSE LET r == get_new_index(f)
         IN  param_slots(r.frame, Tail(params),
                         Append(sym, [name |-> Head(params), idx |-> r.ret[1]]))

generate_method_begin(method_name, is_static, params) ==
    LET r0 == enter_scope(NewFrame, TRUE)
        from_label == get_start_label(r0.frame).ret[1]
        to_label == get_end_label(r0.frame).ret[1]
        r1 == IF method_name = "main" /\ is_static
              THEN [frame |-> get_new_index(r0.frame).frame, sym |-> <<>>]
              ELSE IF ~is_static
              THEN [frame |-> get_new_index(r0.frame).frame,
                    sym |-> <<[name |-> "this", idx |-> get_new_index(r0.frame).ret[1]]>>]
              ELSE [frame |-> r0.frame, sym |-> <<>>]
        r2 == param_slots(r1.frame, params, r1.sym)
    IN  [frame |-> r2.frame, exc |-> "none", ret |-> None,
         sym |-> r2.ret, labels |-> <<from_label, to_label>>]

GenerateMethod ==
    \E method_name \in MethodNames, is_static \in BOOLEAN,
       params \in UNION {[1..n -> Names] : n \in 0..MaxParams} :
        /\ walk = <<>>
        /\ LET r == generate_method_begin(method_name, is_static, params)
           IN  GenStep("generate_method", r,
                       <<Open("method", "body_pending", r.sym, r.labels)>>, NoBranch)

\* generate_method after the body: return, end label, exit_scope
generate_method_end(f) == exit_scope(f)

GenerateMethodEnd ==
    /\ exc = "none"
    /\ walk # <<>> /\ Top.kind = "method" /\ Top.phase = "body_done"
    /\ GenStep("generate_method_end", generate_method_end(frame), <<>>, emitted)

\* visit_block_statement: declarations first, then statements, no new scope
VisitBlockEnterTo(nest) ==
    /\ exc = "none" /\ walk # <<>>
    /\ \/ StmtSlot
       \/ Top.kind = "method" /\ Top.phase = "body_pending"
    /\ Len(walk) < nest
    /\ GenStep("visit_block_statement", Ok(frame, None),
               Append(walk, Open("block", "decls", Top.sym, <<>>)), emitted)

VisitBlockEnter == VisitBlockEnterTo(MaxNest)

VisitBlockExit ==
    /\ exc = "none" /\ walk # <<>> /\ Top.kind = "block"
    /\ GenStep("visit_block_statement_end", Ok(frame, None),
               ChildDone(Front(walk)), emitted)

\* visit_variable_decl: one slot per variable, an initializer is evaluated
\* (an int literal here) and stored
RECURSIVE variable_slots(_, _, _, _)
variable_slots(f, names, has_init, new_sym) ==
    IF names = <<>> THEN [frame |-> f, exc |-> "none", ret |-> new_sym]
    ELSE LET r == get_new_index(f)
             s == Append(new_sym, [name |-> Head(names), idx |-> r.ret[1]])
             ri == IF has_init
                   THEN Bind(emit_push_iconst(r.frame), emit_write_var)
                   ELSE Ok(r.frame, None)
         IN  IF ri.exc # "none" THEN ri
             ELSE variable_slots(ri.frame, Tail(names), has_init, s)

visit_variable_decl(f, sym, names, has_init) ==
    LET r0 == Bind(get_start_label(f), get_end_label)
        r == IF r0.exc # "none" THEN r0 ELSE variable_slots(f, names, has_init, <<>>)
    IN  IF r.exc # "none" THEN r
        ELSE [frame |-> r.frame, exc |-> "none", ret |-> r.ret \o sym]

VisitVariableDeclUpTo(slots) ==
    \E names \in UNION {[1..n -> Names] : n \in 1..2}, has_init \in BOOLEAN :
        /\ exc = "none" /\ walk # <<>>
        /\ Top.kind = "block" /\ Top.phase = "decls"
        /\ frame.curr_index + Len(names) <= slots
        /\ LET r == visit_variable_decl(frame, Top.sym, names, has_init)
           IN  GenStep("visit_variable_decl", [r EXCEPT !.ret = None],
                       [walk EXCEPT ![Len(walk)].sym = r.ret], emitted)

VisitVariableDecl == VisitVariableDeclUpTo(1 + MaxParams + MaxLocals)

\* visit_if_statement: condition (a boolean literal), two labels, branch
visit_if_begin(f) ==
    LET r0 == emit_push_iconst(f)
        r1 == get_new_label(r0.frame)
        r2 == get_new_label(r1.frame)
        r3 == emit_if_false(r2.frame)
    IN  [r3 EXCEPT !.ret = <<r1.ret[1], r2.ret[1]>>]

VisitIfEnter ==
    \E has_else \in BOOLEAN :
        /\ StmtSlot
        /\ Len(walk) < MaxNest
        /\ frame.current_label + 2 <= MaxGenLabel
        /\ LET r == visit_if_begin(frame)
           IN  GenStep("visit_if_statement", [r EXCEPT !.ret = None],
                       Append(walk, Open("if", "then_pending", Top.sym,
                                         r.ret \o <<IF has_else THEN 1 ELSE 0>>)),
                       Branch("ifeq", r.ret[1]))

\* after the then branch: goto exit, else label, and the else branch if any
VisitIfElse ==
    /\ exc = "none" /\ walk # <<>>
    /\ Top.kind = "if" /\ Top.phase = "then_done"
    /\ GenStep("visit_if_statement_else", Ok(frame, None),
               IF Top.labels[3] = 1
               THEN [walk EXCEPT ![Len(walk)].phase = "else_pending"]
               ELSE ChildDone(Front(walk)),
               Goto(Top.labels[2]))

VisitIfExit ==
    /\ exc = "none" /\ walk # <<>>
    /\ Top.kind = "if" /\ Top.phase = "else_done"
    /\ GenStep("visit_if_statement_end", Ok(frame, None),
               ChildDone(Front(walk)), emitted)

\* visit_for_statement up to the visit of the body (bounds are int literals)
visit_for_begin(f, sym, variable) ==
    LET r0 == emit_push_iconst(f)
    IN  IF FirstSym(sym, variable, 1) = 0
        THEN [frame |-> r0.frame, exc |-> "StopIteration", ret |-> None]
        ELSE
        LET r1 == emit_write_var(r0.frame)
            l1 == get_new_label(r1.frame)
            l2 == get_new_label(l1.frame)
            l3 == get_new_label(l2.frame)
            loop_label == l1.ret[1]
            continue_label == l2.ret[1]
            break_label == l3.ret[1]
            r2 == enter_loop(l3.frame)
            r3 == [r2.frame EXCEPT !.con_label = Append(@, continue_label),
                                   !.brk_label = Append(@, break_label)]
            r4 == Bind(Bind(Bind(emit_read_var(r3), emit_push_iconst), pop), pop)
        IN  IF r1.exc # "none" THEN r1
            ELSE [r4 EXCEPT !.ret = <<loop_label, continue_label, break_label>>]

VisitForEnter ==
    \E variable \in Names :
        /\ StmtSlot
        /\ Len(walk) < MaxNest
        /\ frame.current_label + 5 <= MaxGenLabel
        /\ LET r == visit_for_begin(frame, Top.sym, variable)
           IN  GenStep("visit_for_statement", [r EXCEPT !.ret = None],
                       Append(walk, Open("for", "body_pending", Top.sym, r.ret)),
                       Branch("if_icmp", r.ret[3]))

\* visit_for_statement after the body: continue label, update, branch back,
\* break label, exit_loop
visit_for_end(f) ==
    Bind(Bind(Bind(Bind(Bind(emit_read_var(f), emit_push_iconst), pop),
                   emit_write_var), emit_goto), exit_loop)

VisitForExit ==
    /\ exc = "none" /\ walk # <<>>
    /\ Top.kind = "for" /\ Top.phase = "body_done"
    /\ GenStep("visit_for_statement_end", visit_for_end(frame),
               ChildDone(Front(walk)), Goto(Top.labels[1]))

\* visit_break_statement / visit_continue_statement
visit_break_statement(f) == Bind(get_break_label(f), emit_goto)

visit_continue_statement(f) == Bind(get_continue_label(f), emit_goto)

VisitBreak ==
    /\ StmtSlot
    /\ GenStep("visit_break_statement", visit_break_statement(frame),
               ChildDone(walk), Goto(get_break_label(frame).ret[1]))

VisitContinue ==
    /\ StmtSlot
    /\ GenStep("visit_continue_statement", visit_continue_statement(frame),
               ChildDone(walk), Goto(get_continue_label(frame).ret[1]))

InitGen == InitFrame

NextGen ==
    \/ GenerateMethod \/ GenerateMethodEnd
    \/ VisitBlockEnter \/ VisitBlockExit \/ VisitVariableDecl
    \/ VisitIfEnter \/ VisitIfElse \/ VisitIfExit
    \/ VisitForEnter \/ VisitForExit
    \/ VisitBreak \/ VisitContinue

SpecGen == InitGen /\ [][NextGen]_vars

\* ------------------------------------------------------------------------
\* Properties of the Frame
\* ------------------------------------------------------------------------

\* C1: the local-slot index right after an exit_scope that returned equals the
\* index that was current at the matching enter_scope, whatever was called
\* in between.
C1_ExitScopeRestoresIndex ==
    (op = "exit_scope" /\ exc = "none") => frame.curr_index = matchIndex

\* an inner scope was left, slots had been allocated inside it, and the index
\* went back to a non-zero value while an outer scope is still open
C1_Witness ==
    /\ op = "exit_scope" /\ exc = "none"
    /\ scopeEntry # <<>>
    /\ matchIndex > 0
    /\ hiIndex > matchIndex
    /\ frame.curr_index = matchIndex

\* C2: on a Frame used for one member (enter_scope(True) first, slots moved
\* only by get_new_index and exit_scope), max_index, and so the value
\* get_max_index() returns, is the largest value curr_index ever reached; an
\* exit_scope that frees inner slots does not lower it.
C2_MaxIndexIsHighWaterMark ==
    memberUse = "member" =>
        /\ frame.max_index = hiIndex
        /\ (op = "get_max_index" => ret = Some(hiIndex))

\* get_max_index() is asked after an exit_scope has freed slots
C2_Witness ==
    /\ memberUse = "member"
    /\ op = "get_max_index" /\ ret = Some(hiIndex)
    /\ hiIndex > frame.curr_index
    /\ frame.start_label = <<>>

\* C3: pop() at depth 0 raises IllegalRuntimeException; pop() at a depth
\* greater than 0 returns and lowers the depth by exactly one; push() returns,
\* raises the depth by one and lifts the running maximum when the new depth
\* exceeds it.
C3_PushPop ==
    [][ /\ (op' = "pop" /\ frame.curr_op_stack_size = 0)
            => exc' = "IllegalRuntimeException"
        /\ (op' = "pop" /\ frame.curr_op_stack_size > 0)
            => /\ exc' = "none"
               /\ frame'.curr_op_stack_size = frame.curr_op_stack_size - 1
        /\ op' = "push"
            => /\ exc' = "none"
               /\ frame'.curr_op_stack_size = frame.curr_op_stack_size + 1
               /\ frame'.max_op_stack_size =
                      Max(frame.max_op_stack_size, frame.curr_op_stack_size + 1)
      ]_vars

\* a pop() on the empty operand stack has raised, after pushes and pops that
\* had emptied the stack again
C3_Witness ==
    /\ op = "pop" /\ exc = "IllegalRuntimeException"
    /\ frame.max_op_stack_size > 0

\* ------------------------------------------------------------------------
\* Properties of the code generator
\* ------------------------------------------------------------------------

\* the innermost open for statement of the walk (0 if there is none)
RECURSIVE InnermostFor(_, _)
InnermostFor(w, k) ==
    IF k = 0 THEN 0
    ELSE IF w[k].kind = "for" THEN k
    ELSE InnermostFor(w, k - 1)

EnclosingFor == walk[InnermostFor(walk, Len(walk))]

\* C4: a break (continue) generated inside one or more for statements
\* branches to the break (continue) label of the innermost for statement that
\* encloses it, wherever in that loop's body it stands.
C4_BranchToInnermostLoop ==
    (exc = "none" /\ InnermostFor(walk, Len(walk)) # 0) =>
        /\ op = "visit_break_statement" => emitted = Goto(EnclosingFor.labels[3])
        /\ op = "visit_continue_statement" => emitted = Goto(EnclosingFor.labels[2])

\* ------------------------------------------------------------------------
\* Properties of the static checker
\* ------------------------------------------------------------------------

\* number of for statements among the open visits
ForDepth(w) == Cardinality({k \in 1..Len(w) : w[k].kind = "for"})

\* C5: a break or continue raises MustInLoop exactly when no for statement of
\* the member is open around it; the counter self.loop is the number of open
\* for statements, one more inside a for body and one less after it.
C5_MustInLoop ==
    [][ /\ outcome.status = "running" => checker.loop = ForDepth(cwalk)
        /\ op' \in {"visit_break_statement", "visit_continue_statement"}
           => /\ (outcome'.err = "MustInLoop") <=> (ForDepth(cwalk) = 0)
              /\ outcome'.err \in {"none", "MustInLoop"}
      ]_vars

\* a break or continue two for statements deep was accepted
C5_Witness ==
    /\ op \in {"visit_break_statement", "visit_continue_statement"}
    /\ outcome.status = "running"
    /\ ForDepth(cwalk) = 2
    /\ checker.loop = 2

\* a static, zero-parameter, void-returning method
EntryShaped(m) ==
    /\ m.kind = "MethodDecl"
    /\ m.is_static
    /\ m.params = <<>>
    /\ m.return_type = PrimitiveType("void")

\* the members of the classes registered so far, as <<class index, member index>>
MemberPositions ==
    {<<i, j>> \in (1..Len(checker.list_class)) \X (1..MaxMembers + 1) :
        j <= Len(checker.list_class[i].members)}

MemberAt(pos) == checker.list_class[pos[1]].members[pos[2]]

\* C6: NoEntryPoint is raised only when every member of every class has been
\* visited without a diagnostic and no method is static, zero-parameter and
\* void; a program visited to its end with such a method passes.
C6_NoEntryPointLast ==
    /\ outcome.err = "NoEntryPoint"
       => /\ visited = CountMembers(checker.list_class)
          /\ ~ \E pos \in MemberPositions : EntryShaped(MemberAt(pos))
    /\ outcome.status = "passed"
       => /\ visited = CountMembers(checker.list_class)
          /\ \E pos \in MemberPositions : EntryShaped(MemberAt(pos))
    /\ op = "visit_program_end" => outcome.status = "passed" \/ outcome.err = "NoEntryPoint"

\* NoEntryPoint for two classes whose members were all visited, one of them a
\* static method that has the wrong shape
C6_Witness ==
    /\ outcome.err = "NoEntryPoint"
    /\ Len(checker.list_class) = 2
    /\ visited = MaxMembers
    /\ \E pos \in MemberPositions :
          MemberAt(pos).kind = "MethodDecl" /\ MemberAt(pos).is_static

\* C7: a program is accepted only if exactly one method of the whole class set
\* is static, zero-parameter, void-returning and named main.
C7_ExactlyOneMain ==
    outcome.status = "passed" =>
        Cardinality({pos \in MemberPositions :
                        EntryShaped(MemberAt(pos)) /\ MemberAt(pos).name = "main"}) = 1

\* names of the classes declared before the class the last step visited
EarlierClassNames ==
    LET earlier == IF outcome.status = "raised" THEN checker.list_class
                   ELSE Front(checker.list_class)
    IN  {earlier[k].name : k \in 1..Len(earlier)}

\* C8 as claimed: Redeclared("Class") for the name of an earlier class or io;
\* otherwise UndeclaredClass whenever the superclass is not an earlier class.
C8_UndeclaredUnlessEarlierClass ==
    op = "visit_class_decl" =>
        LET node == cnode[1]
        IN  /\ node.name \in EarlierClassNames \cup {"io"}
               => outcome = Diagnostic("Redeclared", "Class", node.name)
            /\ (/\ node.name \notin EarlierClassNames \cup {"io"}
                /\ node.superclass # None
                /\ node.superclass[1] \notin EarlierClassNames)
               => outcome = Diagnostic("UndeclaredClass", "", node.superclass[1])

\* C8 (amended): Redeclared("Class") for the name of an earlier class or io;
\* otherwise UndeclaredClass exactly when the superclass is neither an earlier
\* class nor the pre-seeded io (a later class and the class itself included).
C8_UndeclaredUnlessInGlobalScope ==
    op = "visit_class_decl" =>
        LET node == cnode[1]
            known == EarlierClassNames \cup {"io"}
        IN  /\ node.name \in known
               => outcome = Diagnostic("Redeclared", "Class", node.name)
            /\ (/\ node.name \notin known
                /\ node.superclass # None
                /\ node.superclass[1] \notin known)
               => outcome = Diagnostic("UndeclaredClass", "", node.superclass[1])
            /\ (/\ node.name \notin known
                /\ node.superclass # None
                /\ node.superclass[1] \in known)
               => outcome.status = "running"

\* the second class of a program extends io, which no class declares, and
\* its members are about to be visited
C8_Witness ==
    /\ op = "visit_class_decl"
    /\ outcome.status = "running"
    /\ cnode[1].superclass = Some("io")
    /\ Len(checker.list_class) = 2

\* C9: a method whose name and parameter-type list equal those of an earlier
\* method of the class raises Redeclared("Method", name); a method that
\* differs from every earlier method of its name in the number of parameters
\* or in at least one parameter type, of whatever kind, raises no Redeclared.
C9_OverloadBySignature ==
    [][ op' = "visit_method_decl" =>
          LET node == NextMember
              earlier == {CTop.node.members[k] : k \in 1..CTop.phase}
              same_name == {m \in earlier : m.name = node.name}
          IN  (\A m \in same_name : m.kind = "MethodDecl") =>
                 /\ (\E m \in same_name :
                        ParamTypes(m.params) = ParamTypes(node.params))
                    => outcome' = Diagnostic("Redeclared", "Method", node.name)
                 /\ (\A m \in same_name :
                        ParamTypes(m.params) # ParamTypes(node.params))
                    => outcome'.err # "Redeclared"
      ]_vars

\* a type with a Reference wrapper removed
Unwrapped(t) == IF t.kind = "ReferenceType" THEN t.referenced_type ELSE t

\* C10: for primitive types, with or without a Reference wrapper on either
\* side, _are_types_compatible(target, source) is true exactly when the two
\* primitive names are equal or target is float and source is int.
C10_PrimitiveCompatibility ==
    (/\ result # None
     /\ Unwrapped(args[1]).kind = "PrimitiveType"
     /\ Unwrapped(args[2]).kind = "PrimitiveType") =>
        LET target == Unwrapped(args[1]).type_name
            source == Unwrapped(args[2]).type_name
        IN  result[1] = (target = source \/ (target = "float" /\ source = "int"))

\* the check has refused to narrow a float into an int behind a Reference
C10_Witness ==
    /\ result = Some(FALSE)
    /\ args = <<ReferenceType(PrimitiveType("int")), PrimitiveType("float")>>

\* C11: for array types, _are_types_compatible(target, source) is true exactly
\* when the two have the same size and the same element type, whatever the
\* element type is; a different size or a different element type gives false.
C11_ArrayCompatibility ==
    (/\ result # None
     /\ Unwrapped(args[1]).kind = "ArrayType"
     /\ Unwrapped(args[2]).kind = "ArrayType") =>
        LET target == Unwrapped(args[1])
            source == Unwrapped(args[2])
        IN  result[1] = (target.size = source.size
                         /\ target.element_type = source.element_type)

\* the names of cls and of the classes it extends, directly or through at
\* most n further classes, as the class table records them
RECURSIVE SelfAndAncestors(_, _, _)
SelfAndAncestors(list_class, names, n) ==
    IF n = 0 THEN names
    ELSE SelfAndAncestors(
             list_class,
             names \cup {list_class[k].superclass[1] :
                           k \in {j \in 1..Len(list_class) :
                                    /\ list_class[j].name \in names
                                    /\ list_class[j].superclass # None}},
             n - 1)

\* C12: for class types, _are_types_compatible(target, source) is true
\* exactly when source's class is target's class or a direct or indirect
\* subclass of it in the class table.
C12_ClassCompatibility ==
    (/\ result # None
     /\ Unwrapped(args[1]).kind = "ClassType"
     /\ Unwrapped(args[2]).kind = "ClassType") =>
        LET target == Unwrapped(args[1]).class_name
            source == Unwrapped(args[2]).class_name
        IN  result[1] = (target \in SelfAndAncestors(checker.list_class, {source},
                                                      Len(checker.list_class)))

\* with C extends B extends A, an A-typed target has accepted a C-typed source
C12_Witness ==
    /\ result = Some(TRUE)
    /\ args = <<ClassType("A"), ClassType("C")>>
    /\ checker.list_class[3].superclass = Some("B")
    /\ checker.list_class[2].superclass = Some("A")


\* ------------------------------------------------------------------------
\* Properties of the code generator's loop label stacks
\* ------------------------------------------------------------------------
\* C18: when the code generator has finished a for statement that is not
\* nested in another for statement of the member, the Frame's continue-label
\* and break-label stacks are empty again, as they were before the statement
\* (every loop entry has been undone by its exit).
C18_LoopStacksRestored ==
    (/\ op = "visit_for_statement_end"
     /\ exc = "none"
     /\ InnermostFor(walk, Len(walk)) = 0) =>
        /\ frame.con_label = <<>>
        /\ frame.brk_label = <<>>


\* ------------------------------------------------------------------------
\* Properties of the static checker: declarations, assignments, expressions
\* ------------------------------------------------------------------------

\* the constant-expression grammar: literals, unary / binary / parenthesized
\* expressions over constants, array literals and object creations over
\* constants, identifiers that resolve to a final symbol
RECURSIVE ConstantExpr(_, _)
ConstantExpr(e, o) ==
    CASE e.kind \in {"IntLiteral", "FloatLiteral", "BoolLiteral", "StringLiteral"} -> TRUE
      [] e.kind = "ParenthesizedExpression" -> ConstantExpr(e.expr, o)
      [] e.kind = "UnaryOp" -> ConstantExpr(e.operand, o)
      [] e.kind = "BinaryOp" -> ConstantExpr(e.left, o) /\ ConstantExpr(e.right, o)
      [] e.kind = "ArrayLiteral" ->
             \A k \in 1..Len(e.value) : ConstantExpr(e.value[k], o)
      [] e.kind = "ObjectCreation" ->
             \A k \in 1..Len(e.args) : ConstantExpr(e.args[k], o)
      [] e.kind = "Identifier" ->
             LET found == FindInScopes(o, e.name, 1)
             IN  found # None /\ found[1].isfinal
      [] OTHER -> FALSE

\* constant expressions whose value is an int
RECURSIVE IntConstant(_, _)
IntConstant(e, o) ==
    CASE e.kind = "IntLiteral" -> TRUE
      [] e.kind = "ParenthesizedExpression" -> IntConstant(e.expr, o)
      [] e.kind = "UnaryOp" -> e.operator = "-" /\ IntConstant(e.operand, o)
      [] e.kind = "BinaryOp" ->
             /\ e.operator \in {"+", "-", "*"}
             /\ IntConstant(e.left, o) /\ IntConstant(e.right, o)
      [] e.kind = "Identifier" ->
             LET found == FindInScopes(o, e.name, 1)
             IN  found # None /\ found[1].isfinal /\ found[1].typ = int
      [] OTHER -> FALSE

\* the step is the visit of a declaration `final T name := init` whose name
\* is new in its block
FinalDeclStep ==
    /\ op' = "visit_variable_decl"
    /\ cwalk # <<>>
    /\ cnode'[1].is_final
    /\ cnode'[1].init_value # None
    /\ FindSym(CTop.o[1], cnode'[1].name, 1) = None

\* C13: a final local declaration is accepted when its initializer is a
\* constant expression of a compatible type (here: an int constant for a
\* final int), and raises IllegalConstantExpression when the initializer is
\* not a constant expression (it mentions a non-final variable, nil, this
\* or an undeclared name).
C13_FinalLocalDeclaration ==
    [][FinalDeclStep =>
          /\ (cnode'[1].var_type = int /\ IntConstant(cnode'[1].init_value, CTop.o))
                 => outcome'.err = "none"
          /\ ~ConstantExpr(cnode'[1].init_value, CTop.o)
                 => outcome'.err = "IllegalConstantExpression"]_vars


\* the diagnostics of the checker
Taxonomy ==
    {"Redeclared", "UndeclaredIdentifier", "UndeclaredClass", "UndeclaredAttribute",
     "UndeclaredMethod", "CannotAssignToConstant", "TypeMismatchInStatement",
     "TypeMismatchInExpression", "TypeMismatchInConstant", "MustInLoop",
     "IllegalConstantExpression", "IllegalArrayLiteral", "IllegalMemberAccess",
     "NoEntryPoint"}

\* C15: check_program returns normally or ends with one diagnostic of the
\* taxonomy; no other kind of failure leaves the checker, whatever
\* expressions the program holds (parenthesized expressions and this used
\* as a value included).
C15_OnlyTaxonomyDiagnostics ==
    outcome.status = "raised" => outcome.err \in Taxonomy


\* C19: when the initializer of a final declaration is not a constant
\* expression, the IllegalConstantExpression raised names the outermost
\* node of the initializer, whichever nested sub-expression failed the
\* check.
C19_OutermostNodeNamed ==
    [][(FinalDeclStep /\ outcome'.err = "IllegalConstantExpression")
          => outcome'.node = cnode'[1].init_value]_vars


\* the final attributes of the class being checked
FinalAttribute(name) ==
    /\ checker.current_class # None
    /\ \E k \in 1..Len(checker.current_class[1].members) :
          LET member == checker.current_class[1].members[k]
          IN  member.kind = "AttributeDecl" /\ member.name = name /\ member.is_final

\* what the left-hand side of an assignment resolves to: a name through the
\* scopes, this.name to the attribute of the class (None if unresolved)
LhsTarget(lhs, o) ==
    IF lhs.kind = "IdLHS" THEN FindInScopes(o, lhs.name, 1)
    ELSE IF /\ lhs.postfix_expr.primary = ThisExpression
            /\ ~checker.in_static_method
            /\ checker.current_class # None
    THEN LET member == FindMember(checker.current_class[1].members, "AttributeDecl",
                                  lhs.postfix_expr.postfix_ops[1].member_name, 1)
         IN  IF member = None THEN None
             ELSE Some(Symbol(member[1].name, member[1].attr_type, member[1].is_final,
                              member[1].is_static))
    ELSE None

C14_AssignFinal ==
    (/\ op' = "visit_assignment_statement" /\ cwalk # <<>>
     /\ cnode'[1].rhs = IntLiteral
     /\ LhsTarget(cnode'[1].lhs, CTop.o) # None
     /\ LhsTarget(cnode'[1].lhs, CTop.o)[1].isfinal)
        => outcome'.err = "CannotAssignToConstant"

C14_ForFinalAttribute ==
    (/\ op' = "visit_for_statement" /\ cwalk # <<>>
     /\ IsInt(cnode'[1].start_type) /\ IsInt(cnode'[1].end_type)
     /\ FinalAttribute(cnode'[1].variable)
     /\ FindInScopes(CTop.o, cnode'[1].variable, 1) = None)
        => outcome'.err = "CannotAssignToConstant"

C14_NonFinalTarget ==
    /\ (/\ op' = "visit_assignment_statement" /\ cwalk # <<>>
        /\ LhsTarget(cnode'[1].lhs, CTop.o) # None
        /\ ~LhsTarget(cnode'[1].lhs, CTop.o)[1].isfinal)
           => outcome'.err # "CannotAssignToConstant"
    /\ (/\ op' = "visit_for_statement" /\ cwalk # <<>>
        /\ FindInScopes(CTop.o, cnode'[1].variable, 1) # None
        /\ ~FindInScopes(CTop.o, cnode'[1].variable, 1)[1].isfinal)
           => outcome'.err # "CannotAssignToConstant"

\* C14: an assignment whose left-hand side resolves to a final variable or
\* attribute raises CannotAssignToConstant; a for statement with int bounds
\* whose loop variable is a final attribute of the enclosing class raises
\* CannotAssignToConstant; an assignment or for statement whose target
\* resolves to a non-final symbol never raises CannotAssignToConstant.
C14_CannotAssignToConstant ==
    [][C14_AssignFinal /\ C14_ForFinalAttribute /\ C14_NonFinalTarget]_vars


\* the class visit that is open, and the names of the attributes and
\* methods among its members at the positions ks
OpenClass == cwalk[2]
NamedAt(ks) ==
    { OpenClass.node.members[k].name :
        k \in { j \in ks : OpenClass.node.members[j].kind
                              \in {"AttributeDecl", "MethodDecl"} } }
DeclaredBefore == NamedAt(1..OpenClass.phase)
DeclaredAfter ==
    NamedAt((OpenClass.phase + 2)..Len(OpenClass.node.members)) \ DeclaredBefore

\* the step visits `int v := name;` in a member body, or the initializer
\* `name` of an attribute, and the declared name is new in its scope
BareNameStep ==
    /\ op' \in {"visit_variable_decl", "visit_attribute_decl"}
    /\ Len(cwalk) >= 2
    /\ FindSym(CTop.o[1], cnode'[1].name, 1) = None
    /\ cnode'[1].init_value # None
    /\ cnode'[1].init_value.kind = "Identifier"

\* C17: the initializer or body of a class member resolves by bare name the
\* attributes and methods of its class declared before that member, and
\* gets UndeclaredIdentifier for those declared after it.
C17_EarlierSiblingsResolve ==
    [][BareNameStep =>
          /\ cnode'[1].init_value.name \in DeclaredBefore
                 => outcome'.err # "UndeclaredIdentifier"
          /\ cnode'[1].init_value.name \in DeclaredAfter
                 => /\ outcome'.err = "UndeclaredIdentifier"
                    /\ outcome'.name = cnode'[1].init_value.name]_vars


\* the step visits `int v := receiver.member` or `int v := receiver.m(args)`
\* in a method body, v is new in the block and the receiver resolves
PostfixStep ==
    /\ op' = "visit_variable_decl"
    /\ Len(cwalk) >= 3
    /\ FindSym(CTop.o[1], cnode'[1].name, 1) = None
    /\ cnode'[1].init_value # None
    /\ cnode'[1].init_value.kind = "PostfixExpression"
    /\ LET primary == cnode'[1].init_value.primary
       IN  \/ primary = ThisExpression /\ ~checker.in_static_method
           \/ primary = Identifier("A")
           \/ /\ primary = Identifier("obj")
              /\ FindInScopes(CTop.o, "obj", 1) # None

\* the type of a literal argument
LiteralType(e) ==
    CASE e.kind = "IntLiteral" -> int
      [] e.kind = "FloatLiteral" -> float
      [] e.kind = "BoolLiteral" -> boolean

\* the overloads of a name in the class, and those that accept the
\* arguments: as many parameters as arguments, each compatible
Overloads(members, name) ==
    { k \in 1..Len(members) : members[k].kind = "MethodDecl" /\ members[k].name = name }
Accepts(method, arguments) ==
    /\ Len(method.params) = Len(arguments)
    /\ \A k \in 1..Len(arguments) :
          are_types_compatible(checker.list_class, method.params[k].param_type,
                               LiteralType(arguments[k]))

\* C16: a call of a method that has several overloads in the receiver's
\* class is accepted when some declared overload takes as many parameters as
\* there are arguments, each compatible with its argument;
\* TypeMismatchInExpression is raised only when no overload matches.
C16_OverloadSelection ==
    [][(/\ PostfixStep
        /\ cnode'[1].init_value.postfix_ops[1].kind = "MethodCall"
        /\ Cardinality(Overloads(OpenClass.node.members,
                                  cnode'[1].init_value.postfix_ops[1].method_name)) > 1)
          => LET call == cnode'[1].init_value.postfix_ops[1]
                 members == OpenClass.node.members
                 matching == { k \in Overloads(members, call.method_name) :
                                 Accepts(members[k], call.args) }
             IN  (outcome'.err = "TypeMismatchInExpression") <=> (matching = {})]_vars

\* the member a postfix op names in the class (None if there is none)
NamedMember(members, postfix_op) ==
    IF postfix_op.kind = "MemberAccess"
    THEN FindMember(members, "AttributeDecl", postfix_op.member_name, 1)
    ELSE FindMember(members, "MethodDecl", postfix_op.method_name, 1)

\* C20: reaching a non-static member through the class name, or a static
\* member through an instance other than this, raises IllegalMemberAccess;
\* a static member through this or through the class name, and an instance
\* member through an instance, raise no IllegalMemberAccess.
C20_StaticInstanceAccess ==
    [][(/\ PostfixStep
        /\ cnode'[1].init_value.postfix_ops[1] \in
              {MemberAccess("s"), MemberAccess("a"),
               MethodCall("sm", <<>>), MethodCall("im", <<>>)}
        /\ NamedMember(OpenClass.node.members, cnode'[1].init_value.postfix_ops[1]) # None)
          => LET primary == cnode'[1].init_value.primary
                 member == NamedMember(OpenClass.node.members,
                                       cnode'[1].init_value.postfix_ops[1])[1]
                 illegal == outcome'.err = "IllegalMemberAccess"
             IN  IF primary = Identifier("A") THEN illegal <=> ~member.is_static
                 ELSE IF primary = ThisExpression THEN ~illegal
                 ELSE illegal <=> member.is_static]_vars

\* the step is the visit of a declaration `T name := init` whose name is new
\* in its block
InitDeclStep ==
    /\ op' = "visit_variable_decl"
    /\ cwalk # <<>>
    /\ cnode'[1].init_value # None
    /\ FindSym(CTop.o[1], cnode'[1].name, 1) = None

\* the initializer has a type where it stands: its visit raises nothing
\* (a parenthesized expression has the type of the expression inside)
Unparenthesized(e) == IF e.kind = "ParenthesizedExpression" THEN e.expr ELSE e
Typed(e) ==
    LET r == visit_expr(checker, Unparenthesized(e), CTop.o)
    IN  r.err.err = "none" /\ (IsSymbol(r.val) \/ IsType(r.val))
InitType(e) ==
    LET r == visit_expr(checker, Unparenthesized(e), CTop.o)
    IN  IF IsSymbol(r.val) THEN r.val.typ ELSE r.val

\* C22: a local declaration whose initializer has a type that is not
\* compatible with the declared type raises TypeMismatchInConstant when it
\* is final and the initializer is a constant expression, and
\* TypeMismatchInStatement when it is not final; an initializer of a
\* compatible type raises neither.
C22_InitializerMismatch ==
    [][(InitDeclStep /\ Typed(cnode'[1].init_value)) =>
          LET node == cnode'[1]
              compatible == are_types_compatible(checker.list_class, node.var_type,
                                                 InitType(node.init_value))
          IN  /\ compatible
                    => outcome'.err \notin {"TypeMismatchInConstant", "TypeMismatchInStatement"}
              /\ (~compatible /\ ~node.is_final)
                    => outcome'.err = "TypeMismatchInStatement"
              /\ (~compatible /\ node.is_final /\ ConstantExpr(node.init_value, CTop.o))
                    => outcome'.err = "TypeMismatchInConstant"]_vars

\* ------------------------------------------------------------------------
\* SpecReturn: check_program on a new StaticChecker, over class A and its
\* subclass B, whose one method f has a body of return statements
\* ------------------------------------------------------------------------
ReturnTypes ==
    { void, int, float, ClassType("A"), ClassType("B"),
      ArrayType(int, 1), ArrayType(float, 1), ArrayType(int, 2) }

ReturnValues ==
    { NilLiteral, IntLiteral, FloatLiteral, BoolLiteral,
      ObjectCreation("A", <<>>), ObjectCreation("B", <<>>),
      ArrayLiteral(<<IntLiteral>>), ArrayLiteral(<<FloatLiteral>>),
      ArrayLiteral(<<IntLiteral, IntLiteral>>),
      BinaryOp(IntLiteral, "+", IntLiteral) }

ReturnStatements == { ReturnStatement(value) : value \in {None} \cup ReturnValues }

ReturnClasses ==
    IF checker.list_class = <<>> THEN { ClassDecl("A", None, <<>>) }
    ELSE IF Len(checker.list_class) = 1
    THEN { ClassDecl("B", Some("A"), <<MethodDecl(is_static, return_type, "f", <<>>)>>) :
             is_static \in BOOLEAN, return_type \in ReturnTypes }
    ELSE {}

NextReturn ==
    \/ VisitProgram \/ VisitProgramEnd
    \/ VisitClassDecl(ReturnClasses) \/ VisitClassDeclEnd
    \/ VisitMethodDecl \/ VisitMethodDeclEnd
    \/ CVisitBlockEnter(1) \/ CVisitBlockExit
    \/ CVisitReturn(ReturnStatements)

SpecReturn == InitCheck /\ [][NextReturn]_vars

\* the step visits a return statement inside a method
ReturnStep == op' = "visit_return_statement" /\ checker.current_return_type # None

\* the type the value of a return statement has where it stands
ReturnedType(value) == visit_expr(checker, value, CTop.o).val.typ

\* C21: in a method declared void a return statement with a non-nil value
\* raises TypeMismatchInStatement; in a method of any other return type a
\* return statement raises TypeMismatchInStatement unless its value is
\* present, not nil and of exactly the declared type (the same primitive,
\* the same class, the same array type).
C21_ReturnTypeExact ==
    [][ReturnStep =>
          LET value == cnode'[1].value
              expected == checker.current_return_type[1]
              valued == value # None /\ value # NilLiteral
              raised == outcome'.err = "TypeMismatchInStatement"
          IN  IF expected = void THEN valued => raised
              ELSE raised <=> ~(valued /\ ReturnedType(value) = expected)]_vars

\* ------------------------------------------------------------------------
\* SpecScope: check_program on a new StaticChecker, over one class with one
\* method whose body nests blocks, if and for statements; the blocks declare
\* x and y, and the initializers and assignments name x and y
\* ------------------------------------------------------------------------
ScopeNames == {"x", "y"}

ScopeDecls ==
    { VariableDecl(FALSE, int, name, init_value) :
        name \in ScopeNames,
        init_value \in {None} \cup {Identifier(n) : n \in ScopeNames} }

ScopeAssignments == { AssignmentStatement(IdLHS(n), IntLiteral) : n \in ScopeNames }

ScopeClasses ==
    IF checker.list_class # <<>> THEN {}
    ELSE { ClassDecl("A", None, <<MethodDecl(TRUE, void, "main", <<>>)>>) }

NextScope ==
    \/ VisitProgram \/ VisitProgramEnd
    \/ VisitClassDecl(ScopeClasses) \/ VisitClassDeclEnd
    \/ VisitMethodDecl \/ VisitMethodDeclEnd
    \/ CVisitBlockEnter(MaxScopeNest) \/ CVisitBlockExit
    \/ CVisitVariableDecl(ScopeDecls)
    \/ CVisitAssignment(ScopeAssignments)
    \/ CVisitIfEnter(MaxScopeNest) \/ CVisitIfElse \/ CVisitIfExit
    \/ CVisitForEnter(MaxScopeNest) \/ CVisitForExit

SpecScope == InitCheck /\ [][NextScope]_vars

\* the open visits of statements and of the member that holds them
StatementLevel == {"method", "block", "for", "if"}

\* the names declared so far by the blocks that are open
DeclaredInOpenBlocks ==
    UNION { { cwalk[k].o[1][j].name : j \in 1..Len(cwalk[k].o[1]) } :
            k \in { k \in 1..Len(cwalk) : cwalk[k].kind = "block" } }

\* the name the step looks up, if it is a declaration with an identifier as
\* initializer or an assignment to an identifier
LooksUp ==
    IF /\ op' = "visit_variable_decl"
       /\ cnode'[1].init_value # None
       /\ FindSym(CTop.o[1], cnode'[1].name, 1) = None
    THEN {cnode'[1].init_value.name}
    ELSE IF op' = "visit_assignment_statement" THEN {cnode'[1].lhs.name}
    ELSE {}

\* C23: a local declaration is visible only to the later declarations and
\* the statements of its block and of the blocks nested in it.  A name is
\* found exactly when a block that is still open has declared it before the
\* point of use (so not by an initializer that comes before the declaration,
\* not by a sibling branch or a later for body, not after the block has
\* ended); a statement is visited with the environment of the visit around
\* it, a block adds one scope of its own in front of it; and no visit
\* changes the environment that an enclosing visit was given.
C23_BlockScoping ==
    [][ /\ \A n \in LooksUp :
              (outcome'.err = "UndeclaredIdentifier") <=> (n \notin DeclaredInOpenBlocks)
        /\ \A k \in 1..Len(cwalk') :
              /\ (k < Len(cwalk) /\ cwalk[k].kind \in StatementLevel)
                    => cwalk'[k].o = cwalk[k].o
              /\ (k = Len(cwalk) /\ cwalk[k].kind \in StatementLevel)
                    => Tail(cwalk'[k].o) = Tail(cwalk[k].o)
              /\ (k > Len(cwalk) /\ cwalk'[k].kind = "block")
                    => cwalk'[k].o = << <<>> >> \o cwalk[k - 1].o
              /\ (k > Len(cwalk) /\ cwalk'[k].kind \in {"for", "if"})
                    => cwalk'[k].o = cwalk[k - 1].o
      ]_vars

\* in the block of the else branch of an if, after its then branch has been
\* visited: the block has declared y, the block around the if has declared
\* x, and y is in no scope of the enclosing visits
C23_Witness ==
    /\ Len(cwalk) = 6
    /\ cwalk[4].kind = "block" /\ cwalk[5].kind = "if" /\ cwalk[6].kind = "block"
    /\ cwalk[5].phase = "else_pending"
    /\ op = "visit_variable_decl"
    /\ FindSym(cwalk[6].o[1], "y", 1) # None
    /\ FindSym(cwalk[4].o[1], "x", 1) # None
    /\ FindInScopes(cwalk[5].o, "y", 1) = None

\* ------------------------------------------------------------------------
\* SpecReuse: check_program called again and again on one StaticChecker,
\* each time on a program of one class with a method of blocks, for
\* statements, break and continue.  A run starts when the one before has
\* passed or raised; the fields of the checker are those that run left.
\* ------------------------------------------------------------------------
CheckProgramAgain ==
    /\ outcome.status \in {"passed", "raised"}
    /\ checker.loop <= MaxLeftLoops
    /\ op' = "visit_program"
    /\ cnode' = None
    /\ outcome' = Running
    /\ visited' = 0
    /\ checker' = [checker EXCEPT !.list_class = <<>>]
    /\ cwalk' = <<Visit("program", "classes",
                        << <<Symbol("io", ClassType("io"), FALSE, FALSE)>> >>, None, FALSE)>>
    /\ UNCHANGED <<frame, exc, ret, scopeEntry, matchIndex, hiIndex, memberUse>>
    /\ UNCHANGED <<genVars, funVars>>

NextReuse ==
    \/ VisitProgram \/ VisitProgramEnd \/ CheckProgramAgain
    \/ VisitClassDecl(LoopClasses) \/ VisitClassDeclEnd
    \/ VisitAttributeDecl
    \/ VisitMethodDecl \/ VisitMethodDeclEnd
    \/ CVisitBlockEnter(MaxReuseNest) \/ CVisitBlockExit
    \/ CVisitForEnter(MaxReuseNest) \/ CVisitForExit
    \/ CVisitBreak \/ CVisitContinue

SpecReuse == InitCheck /\ [][NextReuse]_vars

\* the fields a new StaticChecker holds at this point of the walk of the
\* same program: the class table of this run, the open for statements, the
\* member and the class being visited
OpenMethod == { k \in 1..Len(cwalk) : cwalk[k].kind = "method" }
FreshAtPoint ==
    [list_class |-> checker.list_class,
     loop |-> ForDepth(cwalk),
     current_return_type |->
         IF OpenMethod = {} THEN None
         ELSE Some(cwalk[CHOOSE k \in OpenMethod : TRUE].node.return_type),
     in_static_method |->
         IF OpenMethod = {} THEN FALSE
         ELSE cwalk[CHOOSE k \in OpenMethod : TRUE].node.is_static,
     current_class |-> IF Len(cwalk) >= 2 THEN Some(cwalk[2].node) ELSE None]

\* C30: the outcome of check_program depends on the program only: on a
\* StaticChecker that has checked other programs before, every break,
\* continue and for statement is judged as a new instance judges it at the
\* same point of the same program.
C30_SameAsNewInstance ==
    [][ /\ op' = "visit_break_statement"
           => outcome'.err = visit_break_statement_check(FreshAtPoint).err
        /\ op' = "visit_continue_statement"
           => outcome'.err = visit_continue_statement_check(FreshAtPoint).err
        /\ op' = "visit_for_statement"
           => outcome'.err = visit_for_statement_check(FreshAtPoint, cnode'[1], CTop.o).err
      ]_vars

\* ------------------------------------------------------------------------
\* The class table
\* ------------------------------------------------------------------------

\* the walk `while current_class_name: ... parent_decl.superclass` started at
\* name ends within fuel rounds
RECURSIVE ChainEnds(_, _, _)
ChainEnds(list_class, name, fuel) ==
    IF fuel = 0 THEN FALSE
    ELSE LET parent_decl == FindClass(list_class, name, 1)
         IN  \/ parent_decl = None
             \/ parent_decl[1].superclass = None
             \/ ChainEnds(list_class, parent_decl[1].superclass[1], fuel - 1)

\* C29: the class table of a run never holds two classes of one name, the
\* superclass a class names was declared strictly earlier or is not in the
\* table, and so the walk up the superclass chain from any class of the
\* table ends after at most one round more than the table has classes.
C29_ClassTableAcyclic ==
    LET list_class == checker.list_class
        n == Len(list_class)
    IN  /\ \A i, j \in 1..n : i # j => list_class[i].name # list_class[j].name
        /\ \A i, j \in 1..n :
              (/\ list_class[i].superclass # None
               /\ list_class[j].name = list_class[i].superclass[1]) => j < i
        /\ \A i \in 1..n : ChainEnds(list_class, list_class[i].name, n + 1)

\* the table holds two classes, the second extends the first, and a third
\* class declaration has been turned down
C29_Witness ==
    /\ op = "visit_class_decl" /\ outcome.status = "raised"
    /\ Len(checker.list_class) = 2
    /\ checker.list_class[2].superclass = Some(checker.list_class[1].name)

\* ------------------------------------------------------------------------
\* SpecSlots: the slots generate_method and the declarations of the body
\* hand out, for members with parameters.  args keeps the member being
\* generated: <<name, is_static, parameter names>>.
\* ------------------------------------------------------------------------
GenerateMethodSlots ==
    \E method_name \in MethodNames, is_static \in BOOLEAN,
       params \in UNION {[1..n -> Names] : n \in 0..MaxSlotParams} :
        /\ walk = <<>>
        /\ LET r == generate_method_begin(method_name, is_static, params)
           IN  /\ frame' = r.frame
               /\ exc' = r.exc
               /\ ret' = r.ret
               /\ op' = "generate_method"
               /\ walk' = <<Open("method", "body_pending", r.sym, r.labels)>>
               /\ emitted' = NoBranch
               /\ args' = <<method_name, is_static, params>>
               /\ UNCHANGED <<scopeEntry, matchIndex, hiIndex, memberUse>>
               /\ UNCHANGED <<chkVars, result>>

NextSlots ==
    \/ GenerateMethodSlots \/ GenerateMethodEnd
    \/ VisitBlockEnterTo(MaxSlotNest) \/ VisitBlockExit
    \/ VisitVariableDeclUpTo(1 + MaxSlotParams + MaxSlotLocals)

SpecSlots == InitGen /\ [][NextSlots]_vars

\* the member being generated
SlotMember == [name |-> args[1], is_static |-> args[2], params |-> args[3]]

\* slot 0 is taken before the parameters: by this, or by main's argument vector
SlotZeroTaken == ~SlotMember.is_static \/ SlotMember.name = "main"
FirstParamSlot == IF SlotZeroTaken THEN 1 ELSE 0

\* the visible symbols are the locals, newest declaration first, then this
\* (instance members), then the parameters
VisibleLocals ==
    Len(Top.sym) - Len(SlotMember.params) - (IF SlotMember.is_static THEN 0 ELSE 1)

\* C28: slot 0 holds this for an instance member and is reserved but bound to
\* no name for the static method main; the parameters take consecutive slots in
\* declaration order, right after slot 0 where it is taken; every local
\* variable visible in the body has a slot different from slot 0 where it is
\* taken, from every parameter slot and from every other visible local.
C28_SlotAssignment ==
    walk # <<>> =>
        LET sym == Top.sym
            params == SlotMember.params
            locals == VisibleLocals
            this_at == locals + 1
            param_at(k) == locals + (IF SlotMember.is_static THEN 0 ELSE 1) + k
        IN  /\ ~SlotMember.is_static => sym[this_at] = [name |-> "this", idx |-> 0]
            /\ (SlotMember.is_static /\ SlotMember.name = "main")
                  => \A k \in 1..Len(sym) : sym[k].idx # 0
            /\ \A k \in 1..Len(params) :
                  sym[param_at(k)] = [name |-> params[k], idx |-> FirstParamSlot + k - 1]
            /\ \A k \in 1..locals : sym[k].idx >= FirstParamSlot + Len(params)
            /\ \A j, k \in 1..locals : j # k => sym[j].idx # sym[k].idx

\* inside a nested block of an instance method with a parameter, two
\* locals are visible, declared in different blocks
C28_Witness ==
    /\ walk # <<>> /\ Len(walk) = 3
    /\ ~SlotMember.is_static /\ Len(SlotMember.params) = 1
    /\ VisibleLocals = 2
    /\ Len(walk[2].sym) < Len(Top.sym)

\* ------------------------------------------------------------------------
\* Frame: failing calls, labels, maxima
\* ------------------------------------------------------------------------

\* the call of the step raised IllegalRuntimeException and changed no field
RaisedUnchanged == exc' = "IllegalRuntimeException" /\ frame' = frame

\* C24: exit_scope with no scope open, exit_loop with no loop open, and
\* get_start_label, get_end_label, get_continue_label and get_break_label on
\* an empty stack each raise IllegalRuntimeException and leave every field
\* of the Frame as it was.
C24_EmptyStackCallsRaise ==
    [][ /\ (op' = "exit_scope" /\ frame.start_label = <<>>) => RaisedUnchanged
        /\ (op' = "exit_loop" /\ frame.con_label = <<>>) => RaisedUnchanged
        /\ (op' = "get_start_label" /\ frame.start_label = <<>>) => RaisedUnchanged
        /\ (op' = "get_end_label" /\ frame.end_label = <<>>) => RaisedUnchanged
        /\ (op' = "get_continue_label" /\ frame.con_label = <<>>) => RaisedUnchanged
        /\ (op' = "get_break_label" /\ frame.brk_label = <<>>) => RaisedUnchanged
      ]_vars

\* exit_loop has raised on a Frame that had a loop entered and left, slots
\* allocated and an operand pushed
C24_Witness ==
    /\ op = "exit_loop" /\ exc = "IllegalRuntimeException"
    /\ frame.con_label = <<>> /\ frame.brk_label = <<>>
    /\ frame.current_label >= 2
    /\ frame.curr_index > 0
    /\ frame.curr_op_stack_size > 0

\* the labels the call of the step issued, in the order it took them
IssuedLabels ==
    CASE op' = "get_new_label" -> <<ret'[1]>>
      [] op' = "enter_scope" -> <<Last(frame'.start_label), Last(frame'.end_label)>>
      [] op' = "enter_loop" -> <<Last(frame'.con_label), Last(frame'.brk_label)>>
      [] OTHER -> <<>>

\* C25: every label one Frame issues is new and larger than all issued
\* before: the labels a call issues are, in order, the values from the
\* counter before the call up to the counter after it, and no call, exit_scope
\* and exit_loop included, ever lowers the counter; so all labels issued by
\* get_new_label, enter_scope and enter_loop are pairwise distinct and
\* strictly increasing.
C25_LabelsUniqueIncreasing ==
    [][ /\ frame'.current_label = frame.current_label + Len(IssuedLabels)
        /\ \A k \in 1..Len(IssuedLabels) :
               IssuedLabels[k] = frame.current_label + k - 1
      ]_vars

\* a scope was entered and left, and the loop entered afterwards got labels
\* 2 and 3, not the labels 0 and 1 of the closed scope
C25_Witness ==
    /\ op = "enter_loop"
    /\ frame.start_label = <<>>
    /\ frame.con_label = <<2>> /\ frame.brk_label = <<3>>

\* C26: the operand-stack depth is never negative, not even in the state a
\* pop() that raised leaves behind.
C26_DepthNonNegative == frame.curr_op_stack_size >= 0

\* C27: the maxima dominate the current values: max_op_stack_size >=
\* curr_op_stack_size and max_index >= curr_index after any sequence of calls.
C27_MaximaDominate ==
    /\ frame.max_op_stack_size >= frame.curr_op_stack_size
    /\ frame.max_index >= frame.curr_index

============================================================================
